---- MODULE Spec2Model ----
(***************************************************************************)
(* A model of the crude-tank simulation engine (src/scheduler.py, class    *)
(* Simulator).                                                             *)
(*                                                                         *)
(* Time is an integer number of minutes since the simulation start         *)
(* (self.start = 0); volumes are integer barrels.  The configuration is    *)
(* chosen so that every duration the code computes by division             *)
(* (volume / rate) is a whole number of minutes, so the float arithmetic   *)
(* of the source is exact in the model.  Event-log timestamps are          *)
(* formatted by the source to the minute ("%d/%m/%Y %H:%M"); on            *)
(* whole-minute times that formatting loses nothing, and the rows of the   *)
(* model keep the integer minute.                                          *)
(*                                                                         *)
(* The simulator object is carried through the operators as one record     *)
(* (Self); the actions install the record's fields into the variables.     *)
(***************************************************************************)
EXTENDS Integers, Sequences, FiniteSets, TLC

\* ------------------------- CONSTANTS / STATES -------------------------
READY == "READY"
FEEDING == "FEEDING"
EMPTY == "EMPTY"
FILLING == "FILLING"
FILLED == "FILLED"
SETTLING == "SETTLING"
LAB == "LAB"
SUSPENDED == "SUSPENDED"
IDLE == "IDLE"

States == {READY, FEEDING, EMPTY, FILLING, FILLED, SETTLING, LAB, SUSPENDED, IDLE}

\* Python's None for an Optional[datetime], and datetime.min.
None == -1
datetime_min == -2
\* "no tank": the code uses 0 for self.active and None for a missing tank id.
NoTank == 0
\* A berth's current_cargo is an index into cargos; 0 is None.
NoCargo == 0
\* The empty cargo name of a log row (cargo or "").
NoVessel == <<>>

MinutesPerHour == 60
MinutesPerDay == 1440

\* ------------------------- CONFIGURATION (cfg) -------------------------
\* cfg["num_tanks"] (= num_tanks_ui): tanks 1..num_tanks.
num_tanks == 3
\* cfg["idle_tank_data"]: one pre-designated idle tank.
idle_tank_ids == {3}
Crudes == {"Crude A", "Crude B"}
N_from_ui == num_tanks
num_normal_tanks == N_from_ui - Cardinality(idle_tank_ids)
all_tank_ids == (1..num_normal_tanks) \cup idle_tank_ids

\* cfg["processing_rate"] in bbl/day; rate_hour = rate_day / 24 = 60 bbl/h,
\* that is one barrel a minute.
processing_rate == 1440
rate_hour == processing_rate \div 24
\* cfg["usable_per_tank"], cfg["dead_bottom"], cfg["buffer_volume"].
usable == 480
dead_bottom == 40
buffer_volume == 20
unusable_per_tank == dead_bottom + (buffer_volume \div 2)
\* cfg["discharge_rate"] in bbl/h (4 barrels a minute).
discharge_rate == 240
\* settle_hours = cfg["settling_days"] * 24.
settle_hours == 5
\* cfg["horizon_days"].
horizon_days == 2
\* cfg["min_ready_tanks"], cfg["first_cargo_min_ready"], cfg["first_cargo_max_ready"].
min_ready_tanks == 1
first_cargo_min_ready == 0
first_cargo_max_ready_cfg == 2
\* cfg["berth_gap_hours_min"], cfg["berth_gap_hours_max"].
berth_gap_hours_min == 1
berth_gap_hours_max == 7
\* cfg["preDischargeDays"] * 24, cfg["tank_gap_hours"], and
\* cfg.get("tankFillGapHours", 0.0) of a configuration without the key.
fill_delay_hours == 0
tank_gap_hours == 1
tank_fill_gap_default == 0
\* cfg["cargo_defs"]: the enabled cargo classes and their volumes.
CargoTypeOrder == <<"VLCC", "SUEZ", "AFRA", "PANA", "HANDY">>
CargoTypes == {CargoTypeOrder[k] : k \in 1..Len(CargoTypeOrder)}
vlcc_volume == 720
enabled_cargos == [ct \in {"VLCC"} |-> vlcc_volume]

\* Tolerances written as literals in the source.
full_tolerance == 100
epsilon == 1
\* The solver branch fills a tank only below usable - 100, and sorts tanks
\* that are not in the master sequence last (key 9999).
partial_fill_margin == 100
unknown_tank_order == 9999
predict_lead_hours == 18

\* The inputs that vary from run to run.
\* cfg["initial_tank_levels"][i] is a gross level; a missing entry defaults
\* to self.usable (taken as a gross level).
\* Per tank the gross levels tried: empty, partly filled (200 bbl usable), the
\* default, exactly full, and above the capacity.
level_empty == 0
level_partial == unusable_per_tank + 200
level_default == usable
level_full == unusable_per_tank + usable
level_over == unusable_per_tank + usable + 50
InitialLevelChoices == [i \in all_tank_ids |->
    IF i = 1 THEN {level_empty, level_default, level_full}
    ELSE IF i = 2 THEN {level_empty, level_full, level_over}
    ELSE {level_empty, level_partial, level_full}]
SnapshotIntervalChoices == {360, 1440}
LabHoursChoices == {0, 3}
\* random.uniform(berth_gap_hours_min, berth_gap_hours_max): the two ends of
\* the range.
GapChoices == {berth_gap_hours_min, berth_gap_hours_max}

BerthIds == {1, 2}

\* cfg["manual_arrival_b1"/"manual_arrival_b2"]: absent (cfg.get gives None),
\* a string that is not "%Y-%m-%dT%H:%M", or such a string, held with the
\* minute after the simulation start that it names.
ManualMissing == <<"missing", 0>>
ManualInvalid == <<"invalid", 0>>
ManualAt(m) == <<"valid", m>>
manual_minute_b1 == 180
manual_minute_b2 == 600
ManualArrivalChoices ==
    {[b \in BerthIds |-> ManualMissing],
     [b \in BerthIds |-> IF b = 1 THEN ManualInvalid ELSE ManualAt(manual_minute_b2)],
     [b \in BerthIds |-> IF b = 1 THEN ManualAt(manual_minute_b1) ELSE ManualMissing],
     [b \in BerthIds |-> IF b = 1 THEN ManualAt(manual_minute_b1) ELSE ManualAt(manual_minute_b2)]}
SchedulingModeChoices == {"solver", "manual"}

\* "from scheduler_solver import SolverPlanManager" succeeds.
SOLVER_AVAILABLE == TRUE

\* cfg["solver_results"]["cargo_schedule"]: the cargos of the plan.
cargo_schedule == <<
    [cargo_id |-> 1, type |-> "VLCC", crude_name |-> "Crude A", size |-> 720],
    [cargo_id |-> 2, type |-> "AFRA", crude_name |-> "Crude B", size |-> 480],
    [cargo_id |-> 3, type |-> "AFRA", crude_name |-> "Crude A", size |-> 480]>>

\* The plan SolverPlanManager.initialize_solver_plan leaves on the
\* simulator: the master tank sequence, each entry the pair of a tank id
\* and the cycle of the visit (the id n is <<n, 0>>, "TKn(c)" is <<n, c>>),
\* and, per cargo id, the planned partial fills; the third cargo has none.
planned_tank_sequence == <<<<2, 0>>, <<3, 0>>, <<1, 0>>>>
planned_assignments == <<
    <<[tank_id |-> 3, volume |-> 240, filled |-> 0],
      [tank_id |-> 2, volume |-> 480, filled |-> 0]>>,
    <<[tank_id |-> 1, volume |-> 240, filled |-> 0],
      [tank_id |-> 3, volume |-> 240, filled |-> 0]>>,
    <<>> >>

VARIABLES
    \* the configuration of the run
    initial_tank_levels, snapshot_interval_minutes, lab_hours,
    \* cfg["tankFillGapHours"], cfg["first_cargo_max_ready"]
    tank_fill_gap_hours, first_cargo_max_ready,
    \* cfg["horizon_days"], in whole days: max_days of run()
    max_days,
    \* cfg["manual_arrival_b1"], cfg["manual_arrival_b2"] as given, and the
    \* scheduling fields __init__ derives from cfg
    cfg_manual_arrival, scheduling_mode, manual_arrival, use_solver_plan,
    \* Simulator fields
    state, bbl, daily_consumption, ready_for_fill_at, ready_at, settle_end_at,
    lab_start_at, feed_start_volume, tank_feed_start_time, tank_cycle_counter,
    tank_mix, initial_state, initially_empty_tanks, state_history,
    no_feed_alert_logged, first_cargo_scheduled, tank_filled_first, active,
    berths, active_fills, cargo_counter, cargos, cargo_remaining_volume,
    daily_log_rows, daily_summary_rows, inventory_data, snapshot_log, infeasible,
    berth_first_cargo_scheduled, cargo_to_tank_assignments, solver_tank_sequence,
    \* locals of run() and simulate_day()
    pc, day_index, now, total_processed_today, true_opening_stock, certified_stock,
    \* solver.py: the CrudeMixOptimizer at work, its params and its result
    optimizer

schedulercfgvars == <<initial_tank_levels, snapshot_interval_minutes, lab_hours,
    tank_fill_gap_hours, first_cargo_max_ready, max_days,
    cfg_manual_arrival, scheduling_mode, manual_arrival, use_solver_plan>>
cfgvars == <<schedulercfgvars, optimizer>>
simvars == <<state, bbl, daily_consumption, ready_for_fill_at, ready_at, settle_end_at,
    lab_start_at, feed_start_volume, tank_feed_start_time, tank_cycle_counter,
    tank_mix, initial_state, initially_empty_tanks, state_history,
    no_feed_alert_logged, first_cargo_scheduled, tank_filled_first, active,
    berths, active_fills, cargo_counter, cargos, cargo_remaining_volume,
    daily_log_rows, daily_summary_rows, inventory_data, snapshot_log, infeasible,
    berth_first_cargo_scheduled, cargo_to_tank_assignments, solver_tank_sequence>>
loopvars == <<pc, day_index, now, total_processed_today, true_opening_stock, certified_stock>>
vars == <<cfgvars, simvars, loopvars>>

\* no optimizer at work
idle_optimizer == [stage |-> "idle"]

\* cfg["idle_tank_data"][..]["initialCrudes"]: the idle tank holds "Crude B",
\* as much of it as its configured level leaves above the unusable floor.
idle_tank_map ==
    [i \in idle_tank_ids |->
        [c \in Crudes |-> IF c = "Crude B" /\ initial_tank_levels[i] > unusable_per_tank
                          THEN initial_tank_levels[i] - unusable_per_tank ELSE 0]]

\* ------------------------- GENERIC HELPERS -------------------------
Min2(a, b) == IF a <= b THEN a ELSE b
Max2(a, b) == IF a >= b THEN a ELSE b
MinOf(S) == CHOOSE x \in S : \A y \in S : x <= y

RECURSIVE SumOver(_, _)
SumOver(f, S) == IF S = {} THEN 0 ELSE LET x == CHOOSE y \in S : TRUE IN f[x] + SumOver(f, S \ {x})

RECURSIVE SortedSeq(_)
SortedSeq(S) == IF S = {} THEN <<>> ELSE <<MinOf(S)>> \o SortedSeq(S \ {MinOf(S)})

Hours(h) == h * MinutesPerHour

\* The simulator object as one record.
Self == [
    lab_hours |-> lab_hours, snapshot_interval_minutes |-> snapshot_interval_minutes,
    tank_fill_gap_hours |-> tank_fill_gap_hours,
    first_cargo_max_ready |-> first_cargo_max_ready,
    state |-> state, bbl |-> bbl, daily_consumption |-> daily_consumption,
    ready_for_fill_at |-> ready_for_fill_at, ready_at |-> ready_at,
    settle_end_at |-> settle_end_at, lab_start_at |-> lab_start_at,
    feed_start_volume |-> feed_start_volume, tank_feed_start_time |-> tank_feed_start_time,
    tank_cycle_counter |-> tank_cycle_counter, tank_mix |-> tank_mix,
    initial_state |-> initial_state, initially_empty_tanks |-> initially_empty_tanks,
    state_history |-> state_history, no_feed_alert_logged |-> no_feed_alert_logged,
    first_cargo_scheduled |-> first_cargo_scheduled, tank_filled_first |-> tank_filled_first,
    active |-> active, berths |-> berths, active_fills |-> active_fills,
    cargo_counter |-> cargo_counter, cargos |-> cargos,
    cargo_remaining_volume |-> cargo_remaining_volume, daily_log_rows |-> daily_log_rows,
    daily_summary_rows |-> daily_summary_rows, inventory_data |-> inventory_data,
    snapshot_log |-> snapshot_log, infeasible |-> infeasible,
    scheduling_mode |-> scheduling_mode, manual_arrival |-> manual_arrival,
    use_solver_plan |-> use_solver_plan,
    berth_first_cargo_scheduled |-> berth_first_cargo_scheduled,
    cargo_to_tank_assignments |-> cargo_to_tank_assignments,
    solver_tank_sequence |-> solver_tank_sequence]

Install(s) ==
    /\ state' = s.state
    /\ bbl' = s.bbl
    /\ daily_consumption' = s.daily_consumption
    /\ ready_for_fill_at' = s.ready_for_fill_at
    /\ ready_at' = s.ready_at
    /\ settle_end_at' = s.settle_end_at
    /\ lab_start_at' = s.lab_start_at
    /\ feed_start_volume' = s.feed_start_volume
    /\ tank_feed_start_time' = s.tank_feed_start_time
    /\ tank_cycle_counter' = s.tank_cycle_counter
    /\ tank_mix' = s.tank_mix
    /\ initial_state' = s.initial_state
    /\ initially_empty_tanks' = s.initially_empty_tanks
    /\ state_history' = s.state_history
    /\ no_feed_alert_logged' = s.no_feed_alert_logged
    /\ first_cargo_scheduled' = s.first_cargo_scheduled
    /\ tank_filled_first' = s.tank_filled_first
    /\ active' = s.active
    /\ berths' = s.berths
    /\ active_fills' = s.active_fills
    /\ cargo_counter' = s.cargo_counter
    /\ cargos' = s.cargos
    /\ cargo_remaining_volume' = s.cargo_remaining_volume
    /\ daily_log_rows' = s.daily_log_rows
    /\ daily_summary_rows' = s.daily_summary_rows
    /\ inventory_data' = s.inventory_data
    /\ snapshot_log' = s.snapshot_log
    /\ infeasible' = s.infeasible
    /\ berth_first_cargo_scheduled' = s.berth_first_cargo_scheduled
    /\ cargo_to_tank_assignments' = s.cargo_to_tank_assignments
    /\ solver_tank_sequence' = s.solver_tank_sequence

\* ------------------------- LOGGING -------------------------
\* _change_state: set the state and append (when, tank_id, new_state).
change_state(s, tank_id, new_state, when) ==
    [s EXCEPT !.state[tank_id] = new_state,
              !.state_history = Append(@, <<when, tank_id, new_state>>)]

\* A replay that applies every entry, whatever its time.
RECURSIVE replay_history_no_cutoff(_, _, _, _)
replay_history_no_cutoff(history, k, ts, states) ==
    IF k > Len(history) THEN states
    ELSE replay_history_no_cutoff(history, k + 1, ts,
             IF history[k][2] \in DOMAIN states
             THEN [states EXCEPT ![history[k][2]] = history[k][3]]
             ELSE states)

\* The loop of _get_state_at_time: apply entries in append order and stop
\* (break) at the first entry whose time is after ts.
RECURSIVE replay_history(_, _, _, _)
replay_history(history, k, ts, states) ==
    IF k > Len(history) THEN states
    ELSE IF history[k][1] <= ts
         THEN replay_history(history, k + 1, ts,
                  IF history[k][2] \in DOMAIN states
                  THEN [states EXCEPT ![history[k][2]] = history[k][3]]
                  ELSE states)
         ELSE states

get_state_at_time(s, ts) == replay_history(s.state_history, 1, ts, s.initial_state)

cycle_events == {"FILL_START_FIRST", "FILL_FINAL_END", "SETTLING_START", "SETTLING_END", "READY"}

\* _log_event: the row's Cycle is the suffix the code appends to the names of
\* the cycle events (0: no suffix); TankStatus are the per-tank state columns.
log_event(s, ts, event, tank_id, cargo) ==
    [s EXCEPT !.daily_log_rows = Append(@,
        [Timestamp |-> ts, Event |-> event,
         Cycle |-> IF event \in cycle_events /\ tank_id # NoTank
                   THEN s.tank_cycle_counter[tank_id] ELSE 0,
         Tank |-> tank_id, Cargo |-> cargo,
         TankStatus |-> get_state_at_time(s, ts)])]

\* ------------------------- UTILITIES -------------------------
count_state(s, target) == Cardinality({i \in all_tank_ids : s.state[i] = target})


\* ------------------------- CONSTRUCTION (__init__) -------------------------
\* The normalisation without its lower clamp.
init_usable_unclamped(gross) == gross - unusable_per_tank

\* usable = max(0.0, gross - self.unusable_per_tank)
init_usable(gross) == Max2(0, gross - unusable_per_tank)

\* The initial state of tank i from its usable volume.
init_state(i, vol) ==
    IF vol <= 0 THEN (IF i \in idle_tank_ids THEN IDLE ELSE EMPTY)
    ELSE IF vol < usable - full_tolerance THEN IDLE
    ELSE READY

\* The initial crude mix of an IDLE tank that the map names.
load_idle_mix(s, i) ==
    IF i \in DOMAIN idle_tank_map THEN [s EXCEPT !.tank_mix[i] = idle_tank_map[i]] ELSE s

\* The loop over the IDLE tanks: load the initial crude mix, log IDLE_FILL,
\* make the tank available for filling at the start.
RECURSIVE init_idle_tanks(_, _)
init_idle_tanks(s, ids) ==
    IF ids = <<>> THEN s
    ELSE IF s.state[Head(ids)] = IDLE
         THEN init_idle_tanks(
                  [log_event(load_idle_mix(s, Head(ids)), 0, "IDLE_FILL", Head(ids), NoVessel)
                      EXCEPT !.ready_for_fill_at[Head(ids)] = 0],
                  Tail(ids))
         ELSE init_idle_tanks(s, Tail(ids))

\* A start that puts tank 1 on feed whatever its state.
init_feeding_always(s) ==
    [change_state(s, 1, FEEDING, 0) EXCEPT
        !.active = 1,
        !.feed_start_volume[1] = Min2(s.bbl[1], usable),
        !.tank_feed_start_time[1] = 0]

\* "Start with Tank 1 feeding" when tank 1 is READY.
init_feeding(s) ==
    IF 1 \in all_tank_ids /\ s.state[1] = READY
    THEN [change_state(s, 1, FEEDING, 0) EXCEPT
             !.active = 1,
             !.bbl[1] = Min2(@, usable),
             !.feed_start_volume[1] = Min2(s.bbl[1], usable),
             !.tank_feed_start_time[1] = 0]
    ELSE [s EXCEPT !.active = 0]

\* The fields of the simulator before the loops of __init__ run.
blank_simulator(vol, st, lab, snap) ==
    [lab_hours |-> lab, snapshot_interval_minutes |-> snap,
     tank_fill_gap_hours |-> tank_fill_gap_default,
     first_cargo_max_ready |-> first_cargo_max_ready_cfg,
     state |-> st, bbl |-> vol,
     daily_consumption |-> [i \in all_tank_ids |-> 0],
     ready_for_fill_at |-> [i \in all_tank_ids |-> datetime_min],
     ready_at |-> [i \in all_tank_ids |-> None],
     settle_end_at |-> [i \in all_tank_ids |-> None],
     lab_start_at |-> [i \in all_tank_ids |-> None],
     feed_start_volume |-> [i \in all_tank_ids |-> 0],
     tank_feed_start_time |-> [i \in all_tank_ids |-> None],
     tank_cycle_counter |-> [i \in all_tank_ids |-> 1],
     tank_mix |-> [i \in all_tank_ids |-> [c \in Crudes |-> 0]],
     initial_state |-> st,
     initially_empty_tanks |-> SelectSeq(SortedSeq(all_tank_ids), LAMBDA i : st[i] = EMPTY),
     state_history |-> <<>>,
     no_feed_alert_logged |-> FALSE,
     first_cargo_scheduled |-> FALSE,
     tank_filled_first |-> {},
     active |-> 1,
     berths |-> [b \in BerthIds |-> [free_at |-> 0, current_cargo |-> NoCargo]],
     active_fills |-> <<>>,
     cargo_counter |-> [ct \in CargoTypes |-> 0],
     cargos |-> <<>>,
     cargo_remaining_volume |-> [v \in {} |-> 0],
     daily_log_rows |-> <<>>,
     daily_summary_rows |-> <<>>,
     inventory_data |-> <<>>,
     snapshot_log |-> <<>>,
     infeasible |-> FALSE,
     scheduling_mode |-> "solver",
     manual_arrival |-> [b \in BerthIds |-> 0],
     use_solver_plan |-> FALSE,
     berth_first_cargo_scheduled |-> [b \in BerthIds |-> FALSE],
     cargo_to_tank_assignments |-> <<>>,
     solver_tank_sequence |-> <<>>]

\* The FEED_START row of the construction.
log_initial_feed(s) ==
    IF s.active # 0 THEN log_event(s, 0, "FEED_START", s.active, NoVessel) ELSE s

initial_volumes(levels) == [i \in all_tank_ids |-> init_usable(levels[i])]
initial_states(vol) == [i \in all_tank_ids |-> init_state(i, vol[i])]

new_simulator(levels, lab, snap) ==
    log_event(
        log_initial_feed(
            log_event(
                init_feeding(
                    init_idle_tanks(
                        blank_simulator(initial_volumes(levels),
                                        initial_states(initial_volumes(levels)), lab, snap),
                        SortedSeq(all_tank_ids))),
                0, "SIM_START", NoTank, NoVessel)),
        0, "CONFIG", NoTank, NoVessel)

\* datetime.strptime(cfg.get(..), "%Y-%m-%dT%H:%M") with the fallback of the
\* except clause: TypeError (no value) and ValueError (no such format) give
\* self.start.
parse_manual_arrival(raw) == IF raw[1] = "valid" THEN raw[2] ELSE 0

\* scheduling_mode and the manual arrivals of the two berths.
configure_scheduling(s, mode, raw) ==
    [s EXCEPT !.scheduling_mode = mode,
              !.manual_arrival = [b \in BerthIds |-> parse_manual_arrival(raw[b])]]

\* The cargo _load_solver_cargos builds from the idx-th entry of the plan;
\* the berths alternate, starting with berth 1.
solver_cargo(idx) ==
    [vessel_name |-> <<"SOLVER", cargo_schedule[idx].cargo_id>>,
     cargo_type |-> cargo_schedule[idx].type,
     cargo_id |-> cargo_schedule[idx].cargo_id,
     crude_type |-> cargo_schedule[idx].crude_name,
     berth |-> IF idx % 2 = 1 THEN 1 ELSE 2,
     arrival |-> 0, fill_start |-> 0 + Hours(fill_delay_hours),
     volume |-> cargo_schedule[idx].size,
     tanks_needed |-> (cargo_schedule[idx].size + usable - 1) \div usable,
     tanks_started |-> 0, tanks_done |-> 0,
     discharge_start |-> None, discharge_end |-> None,
     tank_fills |-> <<>>, dispatched |-> FALSE, next_fill_available_at |-> None,
     arrival_logged |-> FALSE]

\* _load_solver_cargos: every cargo of the plan is appended at construction.
load_solver_cargos(s) ==
    IF ~s.use_solver_plan \/ cargo_schedule = <<>> THEN s
    ELSE [s EXCEPT
            !.cargos = @ \o [idx \in 1..Len(cargo_schedule) |-> solver_cargo(idx)],
            !.cargo_remaining_volume =
                [v \in {solver_cargo(idx).vessel_name : idx \in 1..Len(cargo_schedule)} |->
                    solver_cargo(CHOOSE idx \in 1..Len(cargo_schedule) :
                                     solver_cargo(idx).vessel_name = v).volume] @@ @]

\* initialize_solver_plan succeeded: the plan's assignments are on the
\* simulator and SOLVER_INIT is logged.
solver_plan_loaded(s) ==
    log_event([s EXCEPT !.use_solver_plan = TRUE,
                        !.cargo_to_tank_assignments = planned_assignments,
                        !.solver_tank_sequence = planned_tank_sequence],
              0, "SOLVER_INIT", NoTank, NoVessel)

\* "SOLVER INITIALIZATION" of __init__: use_optimized_schedule is
\* cfg["use_optimized_schedule"], solver_initialized the result of
\* initialize_solver_plan.
init_solver(s, use_optimized_schedule, solver_initialized) ==
    IF use_optimized_schedule /\ SOLVER_AVAILABLE
    THEN IF solver_initialized THEN load_solver_cargos(solver_plan_loaded(s))
         ELSE log_event(s, 0, "SOLVER_INIT_FAIL", NoTank, NoVessel)
    ELSE s

\* ------------------------- FEEDING -------------------------
\* A search that takes the READY tank of the lowest id, wherever the search
\* is told to start.
find_lowest_ready(s, start_from) ==
    IF \E i \in all_tank_ids : s.state[i] = READY
    THEN MinOf({i \in all_tank_ids : s.state[i] = READY})
    ELSE NoTank

\* _find_next_ready_sequential: the first READY tank after start_from in the
\* sorted tank ids, wrapping around; NoTank when there is none.
find_next_ready_sequential(s, start_from) ==
    LET all_real_tanks == SortedSeq(all_tank_ids)
        num_tanks_real == Len(all_real_tanks)
        start_index == IF \E k \in 1..num_tanks_real : all_real_tanks[k] = start_from
                       THEN (CHOOSE k \in 1..num_tanks_real : all_real_tanks[k] = start_from) - 1
                       ELSE -1
        at(offset) == all_real_tanks[((start_index + offset) % num_tanks_real) + 1]
        hits == {offset \in 1..num_tanks_real : s.state[at(offset)] = READY}
    IN IF hits = {} THEN NoTank ELSE at(MinOf(hits))

\* The tank nxt becomes the active tank: its volume is capped at usable and
\* recorded as the feed start volume.
begin_feed(s, nxt, t) ==
    [s EXCEPT !.active = nxt,
              !.bbl[nxt] = Min2(@, usable),
              !.feed_start_volume[nxt] = Min2(s.bbl[nxt], usable),
              !.tank_feed_start_time[nxt] = t]

\* "If resuming from halt, log resume message first".
log_resume(s, t) ==
    IF s.no_feed_alert_logged
    THEN [log_event(s, t, "PROCESSING_RESUME", NoTank, NoVessel)
             EXCEPT !.no_feed_alert_logged = FALSE]
    ELSE s

\* An alert that is logged at every check while no tank can feed.
log_no_feed_every_time(s, t, event) ==
    [log_event(s, t, event, NoTank, NoVessel) EXCEPT !.no_feed_alert_logged = TRUE]

\* The alert that is logged only once while no tank can feed.
log_no_feed(s, t, event) ==
    IF ~s.no_feed_alert_logged
    THEN [log_event(s, t, event, NoTank, NoVessel) EXCEPT !.no_feed_alert_logged = TRUE]
    ELSE s

\* A feed assignment without the early return for a tank that is feeding.
ensure_feeding_unguarded(s, t) ==
    IF find_next_ready_sequential(s, s.active) # NoTank
    THEN log_event(
             log_resume(
                 begin_feed(
                     change_state(s, find_next_ready_sequential(s, s.active), FEEDING, t),
                     find_next_ready_sequential(s, s.active), t),
                 t),
             t, "FEED_START", find_next_ready_sequential(s, s.active), NoVessel)
    ELSE log_no_feed(s, t, "NO_FEED_AVAILABLE")

\* _ensure_feeding
ensure_feeding(s, t) ==
    IF s.active # 0 /\ s.state[s.active] = FEEDING THEN s
    ELSE IF find_next_ready_sequential(s, s.active) # NoTank
         THEN log_event(
                  log_resume(
                      begin_feed(
                          change_state(s, find_next_ready_sequential(s, s.active), FEEDING, t),
                          find_next_ready_sequential(s, s.active), t),
                      t),
                  t, "FEED_START", find_next_ready_sequential(s, s.active), NoVessel)
         ELSE log_no_feed(s, t, "NO_FEED_AVAILABLE")

\* "Process remainder of hour at FIXED RATE" from the tank taken at the
\* changeover.
drain_remainder(s, nxt, remaining_minutes) ==
    IF remaining_minutes > 0 /\ s.bbl[nxt] > 0
    THEN [sim |-> [s EXCEPT
                     !.bbl[nxt] = @ - Min2((rate_hour * remaining_minutes) \div MinutesPerHour, @),
                     !.daily_consumption[nxt] =
                         @ + Min2((rate_hour * remaining_minutes) \div MinutesPerHour, s.bbl[nxt])],
          processed |-> Min2((rate_hour * remaining_minutes) \div MinutesPerHour, s.bbl[nxt])]
    ELSE [sim |-> s, processed |-> 0]

\* The changeover of _consume_hour after the active tank emptied at t_empty:
\* the next READY tank starts feeding at t_empty and is drained for the
\* remaining minutes of the step; with no READY tank processing halts.
consume_changeover(s, emptied_tank, t_empty, remaining_minutes) ==
    IF find_next_ready_sequential(s, emptied_tank) # NoTank
    THEN drain_remainder(
             log_event(
                 change_state(
                     log_resume(begin_feed(s, find_next_ready_sequential(s, emptied_tank), t_empty),
                                t_empty),
                     find_next_ready_sequential(s, emptied_tank), FEEDING, t_empty),
                 t_empty, "FEED_CHANGEOVER", find_next_ready_sequential(s, emptied_tank), NoVessel),
             find_next_ready_sequential(s, emptied_tank), remaining_minutes)
    ELSE [sim |-> log_no_feed([s EXCEPT !.active = 0], t_empty, "PROCESSING_HALT"),
          processed |-> 0]

\* A FEED_ERROR branch that leaves the tank's rest time as it was.
feed_error_no_rest(s, a, t) ==
    log_event(change_state(s, a, EMPTY, t), t, "FEED_ERROR", a, NoVessel)

\* The FEED_ERROR branch: the active tank is FEEDING with no volume.
feed_error(s, a, t) ==
    log_event([change_state(s, a, EMPTY, t) EXCEPT
                  !.ready_for_fill_at[a] = t + Hours(tank_gap_hours)],
              t, "FEED_ERROR", a, NoVessel)

\* "Tank won't empty in this hour - process at FIXED RATE".
consume_fixed_rate(s, a, take) ==
    [sim |-> [s EXCEPT !.bbl[a] = Max2(0, @ - take), !.daily_consumption[a] = @ + take],
     processed |-> take]

\* The EMPTY_START row, logged when a preparation gap is configured.
log_empty_start(s, a, t_empty) ==
    IF tank_gap_hours > 0 THEN log_event(s, t_empty, "EMPTY_START", a, NoVessel) ELSE s

\* "Tank will empty during this hour": the active tank a is drained and
\* goes EMPTY at t_empty.
empty_tank(s, a, t_empty) ==
    log_empty_start(
        log_event(
            [change_state([s EXCEPT !.bbl[a] = 0,
                                    !.daily_consumption[a] = @ + s.bbl[a],
                                    !.tank_filled_first = @ \ {a},
                                    !.tank_mix[a] = [c \in Crudes |-> 0]],
                          a, EMPTY, t_empty)
                EXCEPT !.ready_for_fill_at[a] = t_empty + Hours(tank_gap_hours)],
            t_empty, "TANK_EMPTY", a, NoVessel),
        a, t_empty)

add_processed(r, take) == [sim |-> r.sim, processed |-> take + r.processed]

time_to_empty_min(available_in_tank) == (available_in_tank * MinutesPerHour) \div rate_hour

\* _consume_hour(now, hour_end): the simulator after the step and the volume
\* processed in it.  hour_length_h = (hour_end - now) / 60 and
\* time_to_empty_h = available / rate_hour are compared in minutes.
consume_hour(s, t, hour_end) ==
    IF s.active = 0 \/ s.state[s.active] # FEEDING THEN [sim |-> s, processed |-> 0]
    ELSE IF rate_hour <= 0 THEN [sim |-> s, processed |-> 0]
    ELSE IF s.bbl[s.active] <= 0 THEN [sim |-> feed_error(s, s.active, t), processed |-> 0]
    ELSE IF s.bbl[s.active] * MinutesPerHour > (hour_end - t) * rate_hour
    THEN consume_fixed_rate(s, s.active, (rate_hour * (hour_end - t)) \div MinutesPerHour)
    ELSE add_processed(
             consume_changeover(empty_tank(s, s.active, t + time_to_empty_min(s.bbl[s.active])),
                                s.active, t + time_to_empty_min(s.bbl[s.active]),
                                (hour_end - t) - time_to_empty_min(s.bbl[s.active])),
             s.bbl[s.active])

\* ------------------------- PROMOTION -------------------------
\* SETTLING -> LAB at the settle end, when lab testing is configured.
promote_to_lab(s, i) ==
    log_event(change_state([s EXCEPT !.settle_end_at[i] = None], i, LAB, s.settle_end_at[i]),
              s.settle_end_at[i], "SETTLING_END", i, NoVessel)

\* A promotion SETTLING -> READY that leaves the cycle counter alone.
promote_settled_same_cycle(s, i) ==
    log_event(
        change_state(
            log_event([s EXCEPT !.bbl[i] = usable, !.ready_at[i] = None,
                                !.settle_end_at[i] = None, !.lab_start_at[i] = None],
                      s.settle_end_at[i], "SETTLING_END", i, NoVessel),
            i, READY, s.ready_at[i]),
        s.ready_at[i], "READY", i, NoVessel)

\* SETTLING -> READY when no lab testing is configured.
promote_settled_to_ready(s, i) ==
    [log_event(
         change_state(
             log_event([s EXCEPT !.bbl[i] = usable, !.ready_at[i] = None,
                                 !.settle_end_at[i] = None, !.lab_start_at[i] = None],
                       s.settle_end_at[i], "SETTLING_END", i, NoVessel),
             i, READY, s.ready_at[i]),
         s.ready_at[i], "READY", i, NoVessel)
       EXCEPT !.tank_cycle_counter[i] = @ + 1]

\* LAB -> READY
promote_lab_to_ready(s, i) ==
    [log_event(
         change_state([s EXCEPT !.bbl[i] = usable, !.ready_at[i] = None,
                                !.lab_start_at[i] = None, !.settle_end_at[i] = None],
                      i, READY, s.ready_at[i]),
         s.ready_at[i], "READY", i, NoVessel)
       EXCEPT !.tank_cycle_counter[i] = @ + 1]

\* The body of the loop of _promote_ready_tanks for tank i.
promote_tank(s, i, t) ==
    IF s.state[i] = SETTLING /\ s.settle_end_at[i] # None /\ s.settle_end_at[i] <= t
    THEN IF s.lab_hours > 0 /\ s.lab_start_at[i] # None /\ s.lab_start_at[i] <= t
         THEN promote_to_lab(s, i)
         ELSE IF s.lab_hours <= 0 /\ s.ready_at[i] # None /\ s.ready_at[i] <= t
         THEN promote_settled_to_ready(s, i)
         ELSE s
    ELSE IF s.state[i] = LAB /\ s.ready_at[i] # None /\ s.ready_at[i] <= t
    THEN promote_lab_to_ready(s, i)
    ELSE s

RECURSIVE promote_loop(_, _, _)
promote_loop(s, ids, t) ==
    IF ids = <<>> THEN s ELSE promote_loop(promote_tank(s, Head(ids), t), Tail(ids), t)

\* _promote_ready_tanks(now): every tank once, in the iteration order of
\* all_tank_ids.
promote_ready_tanks(s, t) == promote_loop(s, SortedSeq(all_tank_ids), t)

\* ------------------------- CARGO SCHEDULING -------------------------
\* _predict_next_tank_empty(now): minutes until the feeding tank and every
\* READY tank after it are drained; None when no tank is feeding.
predict_next_tank_empty(s) ==
    IF s.active = 0 \/ s.state[s.active] # FEEDING THEN None
    ELSE (s.bbl[s.active] * MinutesPerHour) \div rate_hour
           + Cardinality({i \in 1..num_tanks : s.state[i] = READY})
               * ((usable * MinutesPerHour) \div rate_hour)

available_types == {ct \in CargoTypes : ct \in DOMAIN enabled_cargos /\ enabled_cargos[ct] > 0}

\* The draws of one scheduling pass: for each berth the random gap (hours)
\* and the random.choice among the available cargo types.
RandomDraws == [BerthIds -> [gap : GapChoices, cargo_type : available_types]]

new_cargo(vessel_name, cargo_type, berth_id, arrival) ==
    [vessel_name |-> vessel_name, cargo_type |-> cargo_type, berth |-> berth_id,
     arrival |-> arrival, fill_start |-> arrival + Hours(fill_delay_hours),
     volume |-> enabled_cargos[cargo_type],
     tanks_needed |-> (enabled_cargos[cargo_type] + usable - 1) \div usable,
     tanks_started |-> 0, tanks_done |-> 0,
     discharge_start |-> None, discharge_end |-> None,
     tank_fills |-> <<>>, dispatched |-> FALSE, next_fill_available_at |-> None]

\* A READY-count condition that asks the first cargo's window of every cargo
\* and nothing else.
ready_condition_window_only(s) ==
    first_cargo_min_ready <= count_state(s, READY)
    /\ count_state(s, READY) <= s.first_cargo_max_ready

\* The READY-count condition of a scheduling pass: the window of the first
\* cargo, the minimum of the later ones.
ready_condition(s) ==
    IF ~s.first_cargo_scheduled
    THEN first_cargo_min_ready <= count_state(s, READY)
         /\ count_state(s, READY) <= s.first_cargo_max_ready
    ELSE count_state(s, READY) >= min_ready_tanks

\* The arrival of the cargo scheduled on the berth at t with the drawn gap.
arrival_time(s, berth_id, t, random_gap) ==
    IF ~s.first_cargo_scheduled THEN t + random_gap
    ELSE IF predict_next_tank_empty(s) # None
         THEN Max2(t + predict_next_tank_empty(s) - Hours(predict_lead_hours),
                   s.berths[berth_id].free_at + random_gap)
         ELSE s.berths[berth_id].free_at + random_gap

mark_first_cargo(s) ==
    IF ~s.first_cargo_scheduled THEN [s EXCEPT !.first_cargo_scheduled = TRUE] ELSE s

\* The new cargo of the drawn type takes the berth; ARRIVAL is logged at
\* its arrival time.
admit_cargo(s, berth_id, cargo_type, arrival) ==
    log_event(
        [s EXCEPT !.cargo_counter[cargo_type] = @ + 1,
                  !.cargos = Append(@, new_cargo(<<cargo_type, s.cargo_counter[cargo_type] + 1>>,
                                                 cargo_type, berth_id, arrival)),
                  !.cargo_remaining_volume =
                      (<<cargo_type, s.cargo_counter[cargo_type] + 1>> :> enabled_cargos[cargo_type]) @@ @,
                  !.berths[berth_id].current_cargo = Len(s.cargos) + 1],
        arrival, "ARRIVAL", NoTank, <<cargo_type, s.cargo_counter[cargo_type] + 1>>)

\* The body of the loop of _schedule_cargos_standard for one berth.
schedule_berth(s, berth_id, t, draw) ==
    IF ~(s.berths[berth_id].current_cargo = NoCargo /\ s.berths[berth_id].free_at <= t) THEN s
    ELSE IF ~ready_condition(s) THEN s
    ELSE IF available_types = {} THEN mark_first_cargo(s)
    ELSE admit_cargo(mark_first_cargo(s), berth_id, draw.cargo_type,
                     arrival_time(s, berth_id, t, Hours(draw.gap)))

\* _schedule_cargos_standard(now): the berths in order.
schedule_cargos_standard(s, t, draws) ==
    schedule_berth(schedule_berth(s, 1, t, draws[1]), 2, t, draws[2])

\* The first cargo of the list that is not dispatched and is planned for
\* the berth (NoCargo: none).
next_undispatched(s, berth_id) ==
    IF \E k \in 1..Len(s.cargos) : ~s.cargos[k].dispatched /\ s.cargos[k].berth = berth_id
    THEN MinOf({k \in 1..Len(s.cargos) : ~s.cargos[k].dispatched /\ s.cargos[k].berth = berth_id})
    ELSE NoCargo

\* An arrival time that takes the drawn gap however few tanks are READY or
\* FEEDING.
calculated_arrival_unrushed(s, berth_id, random_gap) ==
    IF ~s.berth_first_cargo_scheduled[berth_id]
    THEN IF s.scheduling_mode = "manual" THEN s.manual_arrival[berth_id]
         ELSE 0 + random_gap
    ELSE s.berths[berth_id].free_at + random_gap

\* "Determine Arrival Time": the first cargo of a berth arrives at the
\* manual time or a random gap after the start; a later one a gap after the
\* berth became free, the minimum gap when few tanks are READY or FEEDING.
calculated_arrival(s, berth_id, random_gap) ==
    IF ~s.berth_first_cargo_scheduled[berth_id]
    THEN IF s.scheduling_mode = "manual" THEN s.manual_arrival[berth_id]
         ELSE 0 + random_gap
    ELSE IF count_state(s, READY) + count_state(s, FEEDING) <= min_ready_tanks
         THEN s.berths[berth_id].free_at + Hours(berth_gap_hours_min)
         ELSE s.berths[berth_id].free_at + random_gap

\* ARRIVAL is logged once per cargo.
log_arrival_once(s, k, arrival) ==
    IF ~s.cargos[k].arrival_logged
    THEN [log_event(s, arrival, "ARRIVAL", NoTank, s.cargos[k].vessel_name)
             EXCEPT !.cargos[k].arrival_logged = TRUE]
    ELSE s

\* The k-th cargo takes its berth with the calculated arrival.
dispatch_cargo(s, k, berth_id, arrival) ==
    log_arrival_once(
        [s EXCEPT !.cargos[k].dispatched = TRUE,
                  !.berths[berth_id].current_cargo = k,
                  !.berth_first_cargo_scheduled[berth_id] = TRUE,
                  !.cargos[k].arrival = arrival,
                  !.cargos[k].fill_start = arrival + Hours(fill_delay_hours)],
        k, arrival)

\* A dispatch that does not look at the berth's current cargo.
dispatch_berth_unchecked(s, berth_id, t, draw) ==
    IF next_undispatched(s, berth_id) = NoCargo THEN s
    ELSE IF t >= calculated_arrival(s, berth_id, Hours(draw.gap))
    THEN dispatch_cargo(s, next_undispatched(s, berth_id), berth_id,
                        calculated_arrival(s, berth_id, Hours(draw.gap)))
    ELSE s

\* The body of the loop of _schedule_cargos_with_solver for the first cargo
\* of a berth that is not dispatched.
dispatch_berth(s, berth_id, t, draw) ==
    IF next_undispatched(s, berth_id) = NoCargo THEN s
    ELSE IF t >= calculated_arrival(s, berth_id, Hours(draw.gap))
            /\ s.berths[berth_id].current_cargo = NoCargo
    THEN dispatch_cargo(s, next_undispatched(s, berth_id), berth_id,
                        calculated_arrival(s, berth_id, Hours(draw.gap)))
    ELSE s

\* _schedule_cargos_with_solver(now): the cargos in list order, one per
\* berth, so the berth whose waiting cargo comes first is served first.
schedule_cargos_with_solver(s, t, draws) ==
    IF next_undispatched(s, 2) # NoCargo
       /\ (next_undispatched(s, 1) = NoCargo \/ next_undispatched(s, 2) < next_undispatched(s, 1))
    THEN dispatch_berth(dispatch_berth(s, 2, t, draws[2]), 1, t, draws[1])
    ELSE dispatch_berth(dispatch_berth(s, 1, t, draws[1]), 2, t, draws[2])

\* schedule_cargos(now): the plan's scheduling when a solver plan is loaded
\* (then solver_plan_manager is set), the standard one otherwise.
schedule_cargos(s, t, draws) ==
    IF s.use_solver_plan THEN schedule_cargos_with_solver(s, t, draws)
    ELSE schedule_cargos_standard(s, t, draws)

\* ------------------------- FILLS -------------------------
fillable_states == {EMPTY, SUSPENDED, IDLE}

in_active_fills(s, vessel_name) ==
    \E k \in 1..Len(s.active_fills) : s.active_fills[k].vessel_name = vessel_name

\* An eligibility test that does not look at the tank's rest time.
fill_eligible_unrested(s, i, t) == s.state[i] \in fillable_states

\* An eligibility test that also admits READY tanks.
fill_eligible_ready_too(s, i, t) ==
    s.state[i] \in (fillable_states \cup {READY}) /\ t >= s.ready_for_fill_at[i]

\* The eligibility test of the standard tank selection.
fill_eligible(s, i, t) == s.state[i] \in fillable_states /\ t >= s.ready_for_fill_at[i]

\* The first eligible tank of the initially-empty list (NoTank: none).
first_preferred(s, t) ==
    IF SelectSeq(s.initially_empty_tanks, LAMBDA i : fill_eligible(s, i, t)) = <<>> THEN NoTank
    ELSE Head(SelectSeq(s.initially_empty_tanks, LAMBDA i : fill_eligible(s, i, t)))

\* The initially-empty list without the tank taken from it.
remaining_preferred(s, taken) ==
    IF taken # NoTank THEN SelectSeq(s.initially_empty_tanks, LAMBDA i : i # taken)
    ELSE s.initially_empty_tanks

\* The eligible tanks outside the initially-empty list.
other_eligible(s, t) ==
    {i \in (1..num_tanks) \cap DOMAIN s.state : fill_eligible(s, i, t)
        /\ ~(\E k \in 1..Len(s.initially_empty_tanks) : s.initially_empty_tanks[k] = i)}

\* The ids that the generator of the second search looks up in self.state:
\* range(1, self.N + 1) up to its first hit.
ids_looked_up(s, t) ==
    IF other_eligible(s, t) = {} THEN 1..num_tanks ELSE 1..MinOf(other_eligible(s, t))

\* self.state[i] raises KeyError for an id that is no key of the dict: the
\* second search raises when it reaches such an id.
selection_raises(s, t) ==
    /\ first_preferred(s, t) = NoTank
    /\ \E i \in ids_looked_up(s, t) : i \notin DOMAIN s.state

\* The tank the standard sequential logic selects (NoTank: none), with the
\* initially-empty list after the selection.
select_standard_tank(s, t) ==
    [tid |-> IF first_preferred(s, t) # NoTank THEN first_preferred(s, t)
             ELSE IF other_eligible(s, t) = {} THEN NoTank ELSE MinOf(other_eligible(s, t)),
     initially_empty_tanks |-> remaining_preferred(s, first_preferred(s, t))]

\* The fill of tank tid from the k-th cargo starts at t.
begin_fill(s, k, tid, t) ==
    log_event(
        change_state(
            [s EXCEPT
               !.cargos[k].tanks_started = @ + 1,
               !.cargos[k].discharge_start = IF @ = None THEN t ELSE @,
               !.active_fills = Append(@,
                   [vessel_name |-> s.cargos[k].vessel_name, tid |-> tid, start_time |-> t,
                    end_time |-> t + (Min2(s.cargo_remaining_volume[s.cargos[k].vessel_name], usable)
                                        * MinutesPerHour) \div discharge_rate,
                    volume |-> Min2(s.cargo_remaining_volume[s.cargos[k].vessel_name], usable)]),
               !.tank_filled_first = @ \cup {tid}],
            tid, FILLING, t),
        t, IF tid \notin s.tank_filled_first THEN "FILL_START_FIRST" ELSE "FILL_START",
        tid, s.cargos[k].vessel_name)

\* The fill_start test of a cargo that has not started to discharge: with a
\* solver plan the cargo must be dispatched as well.
arrived_for_fill(s, k, t) ==
    IF s.use_solver_plan THEN s.cargos[k].dispatched /\ t >= s.cargos[k].fill_start
    ELSE t >= s.cargos[k].fill_start

\* Start conditions that do not look at the cargo's remaining volume.
may_start_fill_any_volume(s, k, t) ==
    /\ ~in_active_fills(s, s.cargos[k].vessel_name)
    /\ ~(s.cargos[k].discharge_start = None /\ ~arrived_for_fill(s, k, t))
    /\ ~(s.cargos[k].next_fill_available_at # None /\ t < s.cargos[k].next_fill_available_at)

\* The conditions under which the k-th cargo may start a fill at t.
may_start_fill(s, k, t) ==
    /\ s.cargo_remaining_volume[s.cargos[k].vessel_name] > epsilon
    /\ ~in_active_fills(s, s.cargos[k].vessel_name)
    /\ ~(s.cargos[k].discharge_start = None /\ ~arrived_for_fill(s, k, t))
    /\ ~(s.cargos[k].next_fill_available_at # None /\ t < s.cargos[k].next_fill_available_at)

\* str(tank_id).split('(')[0].replace('TK', ''): the tank of an entry of
\* the master sequence, its cycle dropped.
base_tank_id(entry) == entry[1]

\* sequence_order of the solver branch: the position of a tank in the
\* master sequence, counted from 0, the last one when it is listed twice;
\* unknown tanks go to the end.
sequence_order(master_sequence, tank_id) ==
    IF \E n \in 1..Len(master_sequence) : base_tank_id(master_sequence[n]) = tank_id
    THEN MinOf({0 - n : n \in {m \in 1..Len(master_sequence) :
                                   base_tank_id(master_sequence[m]) = tank_id}}) * (0 - 1) - 1
    ELSE unknown_tank_order

\* The first position of assigns with the least sort key.
first_in_order(master_sequence, assigns) ==
    MinOf({n \in 1..Len(assigns) :
              \A m \in 1..Len(assigns) :
                  sequence_order(master_sequence, assigns[n].tank_id)
                      <= sequence_order(master_sequence, assigns[m].tank_id)})

\* assigns.sort(key=get_sort_key): a stable sort by the master sequence.
RECURSIVE sort_by_sequence(_, _)
sort_by_sequence(master_sequence, assigns) ==
    IF assigns = <<>> THEN <<>>
    ELSE <<assigns[first_in_order(master_sequence, assigns)]>>
         \o sort_by_sequence(master_sequence,
                SubSeq(assigns, 1, first_in_order(master_sequence, assigns) - 1)
                \o SubSeq(assigns, first_in_order(master_sequence, assigns) + 1, Len(assigns)))

\* The assignments of the k-th cargo: cargo_to_tank_assignments.get(cargo_key, []).
assignments_of(s, k) ==
    IF s.cargos[k].cargo_id \in DOMAIN s.cargo_to_tank_assignments
    THEN s.cargo_to_tank_assignments[s.cargos[k].cargo_id] ELSE <<>>

\* The assignments of the k-th cargo are sorted in place.
sort_assignments(s, k) ==
    IF s.solver_tank_sequence # <<>>
    THEN [s EXCEPT !.cargo_to_tank_assignments[s.cargos[k].cargo_id] =
                       sort_by_sequence(s.solver_tank_sequence, @)]
    ELSE s

\* An assignment that can be filled at t: volume left in it, its tank
\* EMPTY, SUSPENDED or IDLE, past its rest time and not nearly full.
assignment_open(s, a, t) ==
    /\ a.tank_id \in 1..num_tanks
    /\ a.volume - a.filled > epsilon
    /\ s.state[a.tank_id] \in fillable_states
    /\ t >= s.ready_for_fill_at[a.tank_id]
    /\ s.bbl[a.tank_id] < usable - partial_fill_margin

\* The position of the first open assignment of the k-th cargo (0: none).
solver_target(s, k, t) ==
    IF \E n \in 1..Len(assignments_of(s, k)) : assignment_open(s, assignments_of(s, k)[n], t)
    THEN MinOf({n \in 1..Len(assignments_of(s, k)) :
                   assignment_open(s, assignments_of(s, k)[n], t)})
    ELSE 0

\* volume_to_fill of the solver branch for the assignment a of the k-th cargo.
solver_volume_to_fill(s, k, a) ==
    Min2(Min2(a.volume - a.filled, s.cargo_remaining_volume[s.cargos[k].vessel_name]),
         Max2(0, usable - s.bbl[a.tank_id]))

\* The planned partial fill at position n of the k-th cargo's assignments
\* starts at t with the volume vol.
begin_solver_fill(s, k, n, vol, t) ==
    log_event(
        change_state(
            [s EXCEPT
               !.tank_mix[assignments_of(s, k)[n].tank_id][s.cargos[k].crude_type] = @ + vol,
               !.cargos[k].tanks_started = @ + 1,
               !.cargos[k].discharge_start = IF @ = None THEN t ELSE @,
               !.active_fills = Append(@,
                   [vessel_name |-> s.cargos[k].vessel_name,
                    tid |-> assignments_of(s, k)[n].tank_id, start_time |-> t,
                    end_time |-> t + (vol * MinutesPerHour) \div discharge_rate,
                    volume |-> vol]),
               !.cargo_to_tank_assignments[s.cargos[k].cargo_id][n].filled = @ + vol,
               !.tank_filled_first = @ \cup {assignments_of(s, k)[n].tank_id}],
            assignments_of(s, k)[n].tank_id, FILLING, t),
        t, IF assignments_of(s, k)[n].tank_id \notin s.tank_filled_first
           THEN "FILL_START_FIRST" ELSE "FILL_START",
        assignments_of(s, k)[n].tank_id, s.cargos[k].vessel_name)

\* The solver branch of _maybe_start_fill for the k-th cargo, its
\* assignments sorted: the first open assignment is filled when more than
\* epsilon can go into it.
solver_fill(s, k, t) ==
    IF solver_target(s, k, t) = 0 THEN s
    ELSE IF solver_volume_to_fill(s, k, assignments_of(s, k)[solver_target(s, k, t)]) > epsilon
    THEN begin_solver_fill(s, k, solver_target(s, k, t),
             solver_volume_to_fill(s, k, assignments_of(s, k)[solver_target(s, k, t)]), t)
    ELSE s

\* The cargo is filled by the solver branch: a plan is loaded and the cargo
\* has assignments.
uses_solver_branch(s, k) == s.use_solver_plan /\ assignments_of(s, k) # <<>>

\* The body of the loop of _maybe_start_fill for the k-th cargo.
start_fill_for_cargo(s, k, t) ==
    IF ~may_start_fill(s, k, t) THEN s
    ELSE IF uses_solver_branch(s, k) THEN solver_fill(sort_assignments(s, k), k, t)
    ELSE IF select_standard_tank(s, t).tid = NoTank
    THEN [s EXCEPT !.initially_empty_tanks = select_standard_tank(s, t).initially_empty_tanks]
    ELSE begin_fill(
             [s EXCEPT !.initially_empty_tanks = select_standard_tank(s, t).initially_empty_tanks],
             k, select_standard_tank(s, t).tid, t)

RECURSIVE start_fill_loop(_, _, _)
start_fill_loop(s, k, t) ==
    IF k > Len(s.cargos) THEN s ELSE start_fill_loop(start_fill_for_cargo(s, k, t), k + 1, t)

\* _maybe_start_fill(now): every cargo in list order.
maybe_start_fill(s, t) == start_fill_loop(s, 1, t)

\* The standard selection for the k-th cargo raises KeyError.
start_fill_raises(s, k, t) ==
    may_start_fill(s, k, t) /\ ~uses_solver_branch(s, k) /\ selection_raises(s, t)

\* _maybe_start_fill(now) for tank dicts of any key set: the loop ends at
\* the first cargo whose selection raises, the fills started for the cargos
\* before it stay started.
RECURSIVE start_fill_loop_keyed(_, _, _)
start_fill_loop_keyed(s, k, t) ==
    IF k > Len(s.cargos) THEN [sim |-> s, raised |-> FALSE]
    ELSE IF start_fill_raises(s, k, t) THEN [sim |-> s, raised |-> TRUE]
    ELSE start_fill_loop_keyed(start_fill_for_cargo(s, k, t), k + 1, t)

cargo_index(s, vessel_name) ==
    IF \E k \in 1..Len(s.cargos) : s.cargos[k].vessel_name = vessel_name
    THEN MinOf({k \in 1..Len(s.cargos) : s.cargos[k].vessel_name = vessel_name})
    ELSE NoCargo

\* A completion that leaves the record in the list of active fills.
keep_fill(fills, vessel_name) == fills

remove_fill(fills, vessel_name) == SelectSeq(fills, LAMBDA f : f.vessel_name # vessel_name)

\* A fill completion that adds the volume without the cap.
add_fill_volume_uncapped(s, fill) == [s EXCEPT !.bbl[fill.tid] = @ + fill.volume]

\* "ADD to existing volume, don't replace it", capped at usable.
add_fill_volume(s, fill) == [s EXCEPT !.bbl[fill.tid] = Min2(@ + fill.volume, usable)]

\* is_tank_full: the gross volume is within the tolerance of the gross
\* capacity.
tank_is_full(s, tid) ==
    s.bbl[tid] + unusable_per_tank >= (usable + unusable_per_tank) - full_tolerance

\* The timers of a full tank: lab start and ready time.
arm_timers(s, tid, settle_end) ==
    IF s.lab_hours > 0
    THEN [s EXCEPT !.lab_start_at[tid] = settle_end,
                   !.ready_at[tid] = settle_end + Hours(s.lab_hours)]
    ELSE [s EXCEPT !.ready_at[tid] = settle_end]

\* "Full fill": FILLED -> SETTLING at end_time, SETTLING_START logged.
settle_tank(s, fill) ==
    arm_timers(
        log_event(
            change_state([s EXCEPT !.settle_end_at[fill.tid] = fill.end_time + Hours(settle_hours)],
                         fill.tid, SETTLING, fill.end_time),
            fill.end_time, "SETTLING_START", fill.tid, fill.vessel_name),
        fill.tid, fill.end_time + Hours(settle_hours))

\* "Partial fill": the tank goes to SUSPENDED.
suspend_tank(s, fill) ==
    [change_state(s, fill.tid, SUSPENDED, fill.end_time)
        EXCEPT !.ready_for_fill_at[fill.tid] = fill.end_time + Hours(s.tank_fill_gap_hours)]

\* The state change and the log rows of a fill that reached its end, after
\* its volume was added.
close_fill(s, fill) ==
    IF tank_is_full(s, fill.tid)
    THEN settle_tank(
             log_event(change_state(s, fill.tid, FILLED, fill.end_time),
                       fill.end_time, "FILL_FINAL_END", fill.tid, fill.vessel_name),
             fill)
    ELSE suspend_tank(log_event(s, fill.end_time, "FILL_END", fill.tid, fill.vessel_name), fill)

\* "Update cargo progress" for the cargo at index k.
record_cargo_progress(s, k, fill) ==
    IF k # NoCargo
    THEN [s EXCEPT
            !.cargos[k].tanks_done = @ + 1,
            !.cargos[k].tank_fills =
                Append(@, <<fill.tid,
                            fill.end_time - (fill.volume * MinutesPerHour) \div discharge_rate,
                            fill.end_time, fill.volume>>),
            !.cargo_remaining_volume[fill.vessel_name] = @ - fill.volume,
            !.cargos[k].discharge_end =
                IF s.cargo_remaining_volume[fill.vessel_name] - fill.volume <= epsilon
                THEN fill.end_time ELSE @]
    ELSE s

\* The TANK_GAP_START row, logged when a gap between fills is configured.
log_tank_gap(s, fill) ==
    IF s.tank_fill_gap_hours > 0
    THEN log_event(s, fill.end_time, "TANK_GAP_START", fill.tid, fill.vessel_name)
    ELSE s

\* A fill completion that leaves the cargo's next fill to the next tick.
continue_cargo_deferred(s, k, fill) ==
    IF k # NoCargo /\ s.cargo_remaining_volume[fill.vessel_name] > epsilon
    THEN log_tank_gap(
             [s EXCEPT !.active_fills = remove_fill(@, fill.vessel_name),
                       !.cargos[k].next_fill_available_at =
                           fill.end_time + Hours(s.tank_fill_gap_hours)],
             fill)
    ELSE [s EXCEPT !.active_fills = remove_fill(@, fill.vessel_name)]

\* A fill completion that starts the cargo's next fill a minute after the
\* end time of the completed one.
continue_cargo_late(s, k, fill) ==
    IF k # NoCargo /\ s.cargo_remaining_volume[fill.vessel_name] > epsilon
    THEN maybe_start_fill(
             log_tank_gap(
                 [s EXCEPT !.active_fills = remove_fill(@, fill.vessel_name),
                           !.cargos[k].next_fill_available_at =
                               fill.end_time + Hours(s.tank_fill_gap_hours)],
                 fill),
             fill.end_time + 1)
    ELSE [s EXCEPT !.active_fills = remove_fill(@, fill.vessel_name)]

\* "Remove this tank from active fills" and, when the cargo has volume
\* left, start its next fill at the end time of this one.
continue_cargo(s, k, fill) ==
    IF k # NoCargo /\ s.cargo_remaining_volume[fill.vessel_name] > epsilon
    THEN maybe_start_fill(
             log_tank_gap(
                 [s EXCEPT !.active_fills = remove_fill(@, fill.vessel_name),
                           !.cargos[k].next_fill_available_at =
                               fill.end_time + Hours(s.tank_fill_gap_hours)],
                 fill),
             fill.end_time)
    ELSE [s EXCEPT !.active_fills = remove_fill(@, fill.vessel_name)]

\* finished_cargos after the fill: the cargo is appended when it is fully
\* discharged.
finished_after(r, k, fill) ==
    IF k # NoCargo /\ r.sim.cargo_remaining_volume[fill.vessel_name] - fill.volume <= epsilon
    THEN Append(r.finished, k)
    ELSE r.finished

\* The body of the loop of _maybe_finish_fill for one entry of the list of
\* active fills taken at the call; r.sim is the simulator, r.finished the
\* list finished_cargos (indices into cargos).
finish_one_fill(r, fill, t) ==
    IF ~(t >= fill.end_time) THEN r
    ELSE [sim |-> continue_cargo(
                      record_cargo_progress(
                          close_fill(add_fill_volume(r.sim, fill), fill),
                          cargo_index(r.sim, fill.vessel_name), fill),
                      cargo_index(r.sim, fill.vessel_name), fill),
          finished |-> finished_after(r, cargo_index(r.sim, fill.vessel_name), fill)]

RECURSIVE finish_fill_loop(_, _, _)
finish_fill_loop(r, fills, t) ==
    IF fills = <<>> THEN r ELSE finish_fill_loop(finish_one_fill(r, Head(fills), t), Tail(fills), t)

\* The berth of the finished cargo k is freed at its discharge end.
free_berth(s, k) ==
    log_event([s EXCEPT !.berths[s.cargos[k].berth].current_cargo = NoCargo,
                        !.berths[s.cargos[k].berth].free_at = s.cargos[k].discharge_end],
              s.cargos[k].discharge_end, "DISCHARGE_COMPLETE", NoTank, s.cargos[k].vessel_name)

\* "Handle finished cargos": free the berth and schedule again at the
\* discharge end.
RECURSIVE handle_finished(_, _, _)
handle_finished(s, finished, draws) ==
    IF finished = <<>> THEN s
    ELSE handle_finished(
             schedule_cargos(free_berth(s, Head(finished)),
                             s.cargos[Head(finished)].discharge_end, draws),
             Tail(finished), draws)

handle_result(r, draws) == handle_finished(r.sim, r.finished, draws)

\* _maybe_finish_fill(now)
maybe_finish_fill(s, t, draws) ==
    handle_result(finish_fill_loop([sim |-> s, finished |-> <<>>], s.active_fills, t), draws)

\* ------------------------- SNAPSHOTS -------------------------
\* The indices of the active fills that name tank i.
fills_of_tank(s, i) == {k \in 1..Len(s.active_fills) : s.active_fills[k].tid = i}

\* The dict comprehension of the snapshot keeps the last fill that names
\* the tank.
fill_of_tank(s, i) ==
    s.active_fills[CHOOSE k \in fills_of_tank(s, i) : \A j \in fills_of_tank(s, i) : j <= k]

\* The volume of a FILLING tank interpolated linearly over the fill.
interpolated_volume(s, i, f, t) ==
    IF f.end_time - f.start_time > 0 /\ t - f.start_time > 0
    THEN s.bbl[i] + (f.volume * Min2(t - f.start_time, f.end_time - f.start_time))
                        \div (f.end_time - f.start_time)
    ELSE s.bbl[i]

snapshot_volume(s, i, t) ==
    IF s.state[i] = FILLING /\ fills_of_tank(s, i) # {}
    THEN interpolated_volume(s, i, fill_of_tank(s, i), t)
    ELSE s.bbl[i]

\* _log_tank_snapshot(now): per tank the volume and the state.
log_tank_snapshot(s, t) ==
    [s EXCEPT !.snapshot_log = Append(@,
        [Timestamp |-> t, Tank |-> [i \in all_tank_ids |-> snapshot_volume(s, i, t)],
         State |-> s.state])]

\* ------------------------- SIMULATION DRIVER -------------------------
simulation_end_dt == max_days * MinutesPerDay
day_start_of(d) == d * MinutesPerDay
day_end_of(d) == Min2(day_start_of(d) + MinutesPerDay, simulation_end_dt)

certified_states == {READY, FEEDING}
stock_of(s, which) == SumOver([i \in all_tank_ids |-> s.bbl[i]], {i \in all_tank_ids : s.state[i] \in which})

\* The variables of the simulator hold the fields of s.
InitFrom(s) ==
    /\ state = s.state
    /\ bbl = s.bbl
    /\ daily_consumption = s.daily_consumption
    /\ ready_for_fill_at = s.ready_for_fill_at
    /\ ready_at = s.ready_at
    /\ settle_end_at = s.settle_end_at
    /\ lab_start_at = s.lab_start_at
    /\ feed_start_volume = s.feed_start_volume
    /\ tank_feed_start_time = s.tank_feed_start_time
    /\ tank_cycle_counter = s.tank_cycle_counter
    /\ tank_mix = s.tank_mix
    /\ initial_state = s.initial_state
    /\ initially_empty_tanks = s.initially_empty_tanks
    /\ state_history = s.state_history
    /\ no_feed_alert_logged = s.no_feed_alert_logged
    /\ first_cargo_scheduled = s.first_cargo_scheduled
    /\ tank_filled_first = s.tank_filled_first
    /\ active = s.active
    /\ berths = s.berths
    /\ active_fills = s.active_fills
    /\ cargo_counter = s.cargo_counter
    /\ cargos = s.cargos
    /\ cargo_remaining_volume = s.cargo_remaining_volume
    /\ daily_log_rows = s.daily_log_rows
    /\ daily_summary_rows = s.daily_summary_rows
    /\ inventory_data = s.inventory_data
    /\ snapshot_log = s.snapshot_log
    /\ infeasible = s.infeasible
    /\ scheduling_mode = s.scheduling_mode
    /\ manual_arrival = s.manual_arrival
    /\ use_solver_plan = s.use_solver_plan
    /\ berth_first_cargo_scheduled = s.berth_first_cargo_scheduled
    /\ cargo_to_tank_assignments = s.cargo_to_tank_assignments
    /\ solver_tank_sequence = s.solver_tank_sequence

InitialLevels ==
    {f \in [all_tank_ids -> UNION {InitialLevelChoices[i] : i \in all_tank_ids}] :
        \A i \in all_tank_ids : f[i] \in InitialLevelChoices[i]}

Init ==
    /\ initial_tank_levels \in InitialLevels
    /\ snapshot_interval_minutes \in SnapshotIntervalChoices
    /\ lab_hours \in LabHoursChoices
    /\ tank_fill_gap_hours = tank_fill_gap_default
    /\ first_cargo_max_ready = first_cargo_max_ready_cfg
    /\ max_days = horizon_days
    /\ cfg_manual_arrival = [b \in BerthIds |-> ManualMissing]
    /\ InitFrom(new_simulator(initial_tank_levels, lab_hours, snapshot_interval_minutes))
    /\ optimizer = idle_optimizer
    /\ pc = "run"
    /\ day_index = 0
    /\ now = 0
    /\ total_processed_today = 0
    /\ true_opening_stock = 0
    /\ certified_stock = 0

\* run(): the head of the loop over the days.
RunLoop ==
    /\ pc = "run"
    /\ pc' = IF ~infeasible /\ day_index < max_days /\ day_start_of(day_index) < simulation_end_dt
             THEN "day_begin" ELSE "done"
    /\ UNCHANGED <<cfgvars, simvars, day_index, now, total_processed_today,
                   true_opening_stock, certified_stock>>

\* The start of simulate_day: promotion at the day start and the reset of
\* daily_consumption.
open_day(s, day_start) ==
    [promote_ready_tanks(s, day_start) EXCEPT !.daily_consumption = [i \in all_tank_ids |-> 0]]

\* DAILY_STATUS and the day's scheduling pass.
begin_day(s, day_start, draws) ==
    schedule_cargos(log_event(s, day_start, "DAILY_STATUS", NoTank, NoVessel), day_start, draws)

\* The opening stocks are taken from the opened day s.
BeginDayFrom(s, day_start, draws) ==
    /\ Install(begin_day(s, day_start, draws))
    /\ certified_stock' = stock_of(s, {READY}) + stock_of(s, {FEEDING})
    /\ true_opening_stock' = stock_of(s, States)
    /\ now' = day_start

\* simulate_day(day_index) up to its while loop.
BeginDay ==
    /\ pc = "day_begin"
    /\ \E draws \in RandomDraws :
          BeginDayFrom(open_day(Self, day_start_of(day_index)), day_start_of(day_index), draws)
    /\ total_processed_today' = 0
    /\ pc' = "loop"
    /\ UNCHANGED <<cfgvars, day_index>>

\* The head of the while loop of simulate_day: leave the loop at the day's
\* end (or the horizon), else log the snapshot of this tick.
LoopHead ==
    /\ pc = "loop"
    /\ IF now < day_end_of(day_index) /\ ~(now >= simulation_end_dt)
       THEN /\ Install(log_tank_snapshot(Self, now))
            /\ pc' = "promote"
       ELSE /\ UNCHANGED simvars
            /\ pc' = "day_end"
    /\ UNCHANGED <<cfgvars, day_index, now, total_processed_today,
                   true_opening_stock, certified_stock>>

\* _promote_ready_tanks(now), first and last phase of a step.
PromoteReadyTanks ==
    /\ pc \in {"promote", "promote_after"}
    /\ Install(promote_ready_tanks(Self, now))
    /\ pc' = IF pc = "promote" THEN "finish_fill" ELSE "loop"
    /\ UNCHANGED <<cfgvars, day_index, now, total_processed_today,
                   true_opening_stock, certified_stock>>

\* _maybe_finish_fill(now), before feed assignment and after consumption.
MaybeFinishFill ==
    /\ pc \in {"finish_fill", "finish_fill_after"}
    /\ \E draws \in RandomDraws : Install(maybe_finish_fill(Self, now, draws))
    /\ pc' = IF pc = "finish_fill" THEN "ensure_feeding" ELSE "promote_after"
    /\ UNCHANGED <<cfgvars, day_index, now, total_processed_today,
                   true_opening_stock, certified_stock>>

\* _ensure_feeding(now)
EnsureFeeding ==
    /\ pc = "ensure_feeding"
    /\ Install(ensure_feeding(Self, now))
    /\ pc' = "start_fill"
    /\ UNCHANGED <<cfgvars, day_index, now, total_processed_today,
                   true_opening_stock, certified_stock>>

\* _maybe_start_fill(now)
MaybeStartFill ==
    /\ pc = "start_fill"
    /\ Install(maybe_start_fill(Self, now))
    /\ pc' = "consume"
    /\ UNCHANGED <<cfgvars, day_index, now, total_processed_today,
                   true_opening_stock, certified_stock>>

\* step_end = min(day_end, now + snapshot interval), capped at the horizon.
\* A step end that does not move the clock.
step_end_stalled(d, t, snap) == t

step_end_of(d, t, snap) == Min2(Min2(day_end_of(d), t + snap), simulation_end_dt)

\* The result r of _consume_hour is installed and the clock moves to the
\* step's end.
ConsumeFrom(r, step_end) ==
    /\ Install(r.sim)
    /\ total_processed_today' = total_processed_today + r.processed
    /\ now' = step_end
    /\ pc' = "finish_fill_after"

\* The step's end and _consume_hour(now, step_end).
ConsumeStep ==
    /\ pc = "consume"
    /\ IF now >= step_end_of(day_index, now, snapshot_interval_minutes)
       THEN /\ pc' = "day_end"
            /\ UNCHANGED <<simvars, now, total_processed_today>>
       ELSE ConsumeFrom(
                consume_hour(Self, now, step_end_of(day_index, now, snapshot_interval_minutes)),
                step_end_of(day_index, now, snapshot_interval_minutes))
    /\ UNCHANGED <<cfgvars, day_index, true_opening_stock, certified_stock>>

\* The timestamp of DAILY_END: one minute before the day's end when the
\* clock reached it.
daily_end_timestamp(t, day_end) == IF t < day_end THEN Min2(t, day_end) ELSE day_end - 1

\* The row of the daily summary.
summary_row(s, d, opening, certified, processed) ==
    [Date |-> day_start_of(d),
     OpeningStock |-> opening,
     cert_stk |-> certified,
     uncert_stk |-> opening - certified,
     Processing |-> processed,
     ClosingStock |-> stock_of(s, States),
     ReadyTanks |-> count_state(s, READY),
     EmptyTanks |-> count_state(s, EMPTY),
     TankStatus |-> s.state]

\* The end of simulate_day: DAILY_END, the inventory point and the daily
\* summary row.
end_day(s, d, t, opening, certified, processed) ==
    [log_event(s, daily_end_timestamp(t, day_end_of(d)), "DAILY_END", NoTank, NoVessel) EXCEPT
        !.inventory_data = Append(@, <<day_start_of(d), stock_of(s, certified_states)>>),
        !.daily_summary_rows = Append(@, summary_row(s, d, opening, certified, processed))]

EndDay ==
    /\ pc = "day_end"
    /\ Install(end_day(Self, day_index, now, true_opening_stock, certified_stock,
                       total_processed_today))
    /\ day_index' = day_index + 1
    /\ pc' = "run"
    /\ UNCHANGED <<cfgvars, now, total_processed_today, true_opening_stock, certified_stock>>

Next ==
    \/ RunLoop
    \/ BeginDay
    \/ LoopHead
    \/ PromoteReadyTanks
    \/ MaybeFinishFill
    \/ EnsureFeeding
    \/ MaybeStartFill
    \/ ConsumeStep
    \/ EndDay

Spec == Init /\ [][Next]_vars

\* A run that is one day longer and takes one snapshot a day.
LongInit ==
    /\ initial_tank_levels \in InitialLevels
    /\ snapshot_interval_minutes = MinutesPerDay
    /\ lab_hours \in LabHoursChoices
    /\ tank_fill_gap_hours = tank_fill_gap_default
    /\ first_cargo_max_ready = first_cargo_max_ready_cfg
    /\ max_days = horizon_days + 1
    /\ cfg_manual_arrival = [b \in BerthIds |-> ManualMissing]
    /\ InitFrom(new_simulator(initial_tank_levels, lab_hours, snapshot_interval_minutes))
    /\ optimizer = idle_optimizer
    /\ pc = "run"
    /\ day_index = 0
    /\ now = 0
    /\ total_processed_today = 0
    /\ true_opening_stock = 0
    /\ certified_stock = 0

LongSpec == LongInit /\ [][Next]_vars

\* The positions of run() and simulate_day().
PcValues == {"run", "day_begin", "loop", "promote", "finish_fill", "ensure_feeding",
             "start_fill", "consume", "finish_fill_after", "promote_after", "day_end", "done"}

\* The program moves on to another position; every step of Next does.
Advance == pc # "done" /\ pc' \in PcValues \ {pc}

\* run() is a sequential loop: until it has returned, the next statement is
\* executed.
FairSpec == Init /\ [][Next]_vars /\ WF_pc(Advance)

\* ---------------------------------------------------------------------
\* solver.py: CrudeMixOptimizer.  Volumes are in hundreds of barrels,
\* percentages in per mille, ratios in parts per million (ratio_scale).
\* ---------------------------------------------------------------------
ratio_scale == 1000000
percent_scale == 1000

VesselTypes == <<"ulcc", "vlcc", "suezmax", "aframax", "panamax", "handymax", "handy_size">>

\* vessel_multipliers, four times the source's values.
vessel_multipliers ==
    [ulcc |-> <<0, 4, 8>>,
     vlcc |-> <<0, 4, 8, 12>>,
     suezmax |-> <<0, 2, 4, 6, 8>>,
     aframax |-> <<0, 1, 2, 3, 4, 5>>,
     panamax |-> <<0, 1, 2, 3, 4>>,
     handymax |-> <<0, 1, 2, 3, 4, 6>>,
     handy_size |-> <<0, 4, 8, 12, 16>>]

\* The search visits the first max_multipliers entries of each list.
max_multipliers == 3

multipliers_of(vt) ==
    SubSeq(vessel_multipliers[vt], 1,
           IF Len(vessel_multipliers[vt]) < max_multipliers
           THEN Len(vessel_multipliers[vt]) ELSE max_multipliers)

\* the multiplier lists in loop order
multiplier_lists == [c \in 1..Len(VesselTypes) |-> multipliers_of(VesselTypes[c])]

abs(x) == IF x < 0 THEN -x ELSE x

RECURSIVE seq_sum(_)
seq_sum(q) == IF q = <<>> THEN 0 ELSE Head(q) + seq_sum(Tail(q))

\* floor(a * ratio_scale / b) for 0 <= a <= 2 * 10^6 and 0 < b
ratio_of(a, b) ==
    ((a * 1000) \div b) * 1000 + (((a * 1000) % b) * 1000) \div b

\* _extract_vessel_data: the classes with a positive capacity.
extract_vessel_data(params) ==
    [vt \in {v \in DOMAIN params.capacity : params.capacity[v] > 0} |-> params.capacity[vt]]

ratios_deviation(volumes, total, crude_ratios) ==
    seq_sum([i \in 1..Len(crude_ratios) |->
                abs(ratio_of(volumes[i], total) - crude_ratios[i])])

no_combination == [found |-> FALSE, combination |-> <<>>, deviation |-> 0]

\* A loop body that keeps the last of the equally good combinations.
consider_last(crude_ratios, combination, cargo_volumes, best) ==
    IF seq_sum(combination) = 0 THEN best
    ELSE IF Len(cargo_volumes) # Len(crude_ratios) THEN best
    ELSE IF seq_sum(cargo_volumes) = 0 THEN best
    ELSE IF ratios_deviation(cargo_volumes, seq_sum(cargo_volumes), crude_ratios) < 1 THEN best
    ELSE IF (~best.found)
            \/ ratios_deviation(cargo_volumes, seq_sum(cargo_volumes), crude_ratios)
                  <= best.deviation
         THEN [found |-> TRUE, combination |-> combination,
               deviation |-> ratios_deviation(cargo_volumes, seq_sum(cargo_volumes), crude_ratios)]
         ELSE best

\* The body of the innermost loop for one combination (the sequence of the
\* seven classes' multipliers) with its cargo_volumes: skip it, or keep it
\* when its deviation is at least 1e-6 and strictly below the best so far.
consider(crude_ratios, combination, cargo_volumes, best) ==
    IF seq_sum(combination) = 0 THEN best
    ELSE IF Len(cargo_volumes) # Len(crude_ratios) THEN best
    ELSE IF seq_sum(cargo_volumes) = 0 THEN best
    ELSE IF ratios_deviation(cargo_volumes, seq_sum(cargo_volumes), crude_ratios) < 1 THEN best
    ELSE IF (~best.found)
            \/ ratios_deviation(cargo_volumes, seq_sum(cargo_volumes), crude_ratios) < best.deviation
         THEN [found |-> TRUE, combination |-> combination,
               deviation |-> ratios_deviation(cargo_volumes, seq_sum(cargo_volumes), crude_ratios)]
         ELSE best

\* cargo_volumes gains capacity * multiplier of a configured class with a
\* positive multiplier.
with_volume(vessels, cargo_volumes, vt, multiplier) ==
    IF vt \in DOMAIN vessels /\ multiplier > 0
    THEN Append(cargo_volumes, vessels[vt] * multiplier)
    ELSE cargo_volumes

\* The seven nested loops, outermost class first: class c from its i-th
\* multiplier on, under the multipliers already chosen for the outer classes.
RECURSIVE search_combinations(_, _, _, _, _, _, _)
search_combinations(vessels, crude_ratios, c, i, combination, cargo_volumes, best) ==
    IF best.deviation < 0 THEN best
    ELSE IF c > Len(VesselTypes)
    THEN consider(crude_ratios, combination, cargo_volumes, best)
    ELSE IF i > Len(multiplier_lists[c]) THEN best
    ELSE search_combinations(vessels, crude_ratios, c, i + 1, combination, cargo_volumes,
             search_combinations(vessels, crude_ratios, c + 1, 1,
                 Append(combination, multiplier_lists[c][i]),
                 with_volume(vessels, cargo_volumes, VesselTypes[c], multiplier_lists[c][i]),
                 best))

find_optimal_vessel_combination(vessels, crude_ratios) ==
    search_combinations(vessels, crude_ratios, 1, 1, <<>>, <<>>, no_combination)

\* _extract_crude_mix: the crudes with a positive percentage, in input order.
RECURSIVE extract_crude_mix_from(_, _)
extract_crude_mix_from(params, i) ==
    IF i > Len(params.crude_names) \/ i > Len(params.crude_percentages) THEN <<>>
    ELSE IF params.crude_percentages[i] > 0
         THEN <<[name |-> params.crude_names[i],
                 percentage |-> params.crude_percentages[i],
                 index |-> i - 1]>> \o extract_crude_mix_from(params, i + 1)
         ELSE extract_crude_mix_from(params, i + 1)

extract_crude_mix(params) == extract_crude_mix_from(params, 1)

crude_names_of(crude_mix) == [i \in 1..Len(crude_mix) |-> crude_mix[i].name]

\* base_ratios: percentage / 100 of every crude of the mix
base_ratios_of(crude_mix) ==
    [i \in 1..Len(crude_mix) |-> crude_mix[i].percentage * (ratio_scale \div percent_scale)]

total_pct(crude_mix) == seq_sum([i \in 1..Len(crude_mix) |-> crude_mix[i].percentage])

\* abs(total_pct - 1.0) > 0.01
percentages_off(crude_mix) == abs(total_pct(crude_mix) - percent_scale) > 10

total_needed_of(params) == params.processingRate * params.schedulingWindow

\* usable_capacity = tank_capacity - (deadBottom1 + bufferVolume / 2)
usable_capacity_of(params) ==
    params.tankCapacity - (params.deadBottom1 + params.bufferVolume \div 2)

\* math.ceil(total_needed / usable_capacity) + 5
tanks_needed_to_fill(params) ==
    (total_needed_of(params) + usable_capacity_of(params) - 1)
        \div usable_capacity_of(params) + 5

\* total_needed / usable_capacity divides by zero
allocation_raises(params) == usable_capacity_of(params) = 0

RECURSIVE sorted_ids(_)
sorted_ids(S) ==
    IF S = {} THEN <<>>
    ELSE <<CHOOSE m \in S : \A o \in S : m <= o>>
            \o sorted_ids(S \ {CHOOSE m \in S : \A o \in S : m <= o})

\* idle_crude_map.keys(): the ids of idleTankData that are not zero and
\* come with initial crudes (idleTankData is a function of the id here, the
\* entry of an id listed twice being the last of them)
idle_partial_tanks_set(params) ==
    {n \in DOMAIN params.idleTankData : n # 0 /\ params.idleTankData[n] # <<>>}

\* tank_level <= operational_floor + 100, the idle tanks left out
empty_tank_ids(params) ==
    {n \in DOMAIN params.tank_levels \ idle_partial_tanks_set(params) :
        params.tank_levels[n] <= params.deadBottom1 + params.bufferVolume \div 2 + 1}

occupied_full_tanks(params) ==
    (DOMAIN params.tank_levels \ idle_partial_tanks_set(params)) \ empty_tank_ids(params)

\* A sequence of all the tanks by ascending id, whatever they hold.
ascending_sequence(params) ==
    sorted_ids(idle_partial_tanks_set(params) \cup DOMAIN params.tank_levels)

\* sorted(idle_partial_tanks) + sorted(empty_tanks) + sorted(occupied_full_tanks)
dynamic_repeating_sequence(params) ==
    sorted_ids(idle_partial_tanks_set(params))
        \o sorted_ids(empty_tank_ids(params))
        \o sorted_ids(occupied_full_tanks(params))

\* The for loop of one cycle: the tanks of the sequence are appended until
\* the pool has the tanks needed; <<n, cycle>> stands for n in cycle 0 and
\* for "TK{n}({cycle})" afterwards.
RECURSIVE extend_pool(_, _, _, _, _)
extend_pool(sequence, pool, needed, cycle, j) ==
    IF j > Len(sequence) \/ Len(pool) >= needed THEN pool
    ELSE extend_pool(sequence, Append(pool, <<sequence[j], cycle>>), needed, cycle, j + 1)

\* while len(final_tank_id_pool) < tanks_needed_to_fill, for a sequence that
\* is not empty
RECURSIVE pool_cycles(_, _, _, _)
pool_cycles(sequence, pool, needed, cycle) ==
    IF Len(pool) >= needed THEN pool
    ELSE pool_cycles(sequence, extend_pool(sequence, pool, needed, cycle, 1),
                     needed, cycle + 1)

final_tank_id_pool(params) ==
    pool_cycles(dynamic_repeating_sequence(params), <<>>, tanks_needed_to_fill(params), 0)

\* final_tank_id_pool[k]
pool_tank_id(params, k) == final_tank_id_pool(params)[k]

\* the while loop never adds a tank
pool_loop_spins(params) ==
    dynamic_repeating_sequence(params) = <<>> /\ tanks_needed_to_fill(params) > 0

\* base_tank_id not in seen_base_tanks
is_first_cycle(pool, k) == \A j \in 1..(k - 1) : pool[j][1] # pool[k][1]

\* float(params.get(f'tank{base_tank_id}Level', 0))
tank_level_of(params, n) ==
    IF n \in DOMAIN params.tank_levels THEN params.tank_levels[n] ELSE 0

\* max(0, tank_level - dead_bottom_operational)
current_usable_volume(params, n) ==
    IF tank_level_of(params, n) > params.deadBottom1 + params.bufferVolume \div 2
    THEN tank_level_of(params, n) - (params.deadBottom1 + params.bufferVolume \div 2)
    ELSE 0

\* the vacant space of an idle tank in its first cycle, the usable capacity
\* otherwise
fillable_capacity_for_this_cycle(params, pool, k) ==
    IF is_first_cycle(pool, k) /\ pool[k][1] \in idle_partial_tanks_set(params)
    THEN usable_capacity_of(params) - current_usable_volume(params, pool[k][1])
    ELSE usable_capacity_of(params)

\* the initial crudes of a positive volume the allocation is pre-populated
\* with (the names of one tank's initial crudes are distinct)
existing_crudes(params, pool, k) ==
    IF is_first_cycle(pool, k) /\ pool[k][1] \in idle_partial_tanks_set(params)
    THEN SelectSeq(params.idleTankData[pool[k][1]], LAMBDA c : c.volume > 0)
    ELSE <<>>

names_in(crudes) == {crudes[j].name : j \in 1..Len(crudes)}

existing_volume(existing, name) ==
    seq_sum([j \in 1..Len(existing) |->
                IF existing[j].name = name THEN existing[j].volume ELSE 0])

\* tank_allocation['crude_volumes'][name] of a crude of the mix: the entry
\* found under the name is added to, and keeps its filled volume and its
\* source cargoes
mix_volume(crude, fillable_capacity, existing) ==
    [crude_name |-> crude.name,
     target_volume |-> existing_volume(existing, crude.name)
                          + (fillable_capacity * crude.percentage) \div percent_scale,
     filled_volume |-> existing_volume(existing, crude.name),
     initial_stock |-> crude.name \in names_in(existing)]

\* the entry of an initial crude
initial_volume(c) ==
    [crude_name |-> c.name, target_volume |-> c.volume,
     filled_volume |-> c.volume, initial_stock |-> TRUE]

mix_crude_named(crude_mix, name) ==
    crude_mix[CHOOSE i \in 1..Len(crude_mix) : crude_mix[i].name = name]

\* the dict in insertion order: the initial crudes, then the crudes of the
\* mix that are not among them
crude_volumes_of(crude_mix, fillable_capacity, existing) ==
    [j \in 1..Len(existing) |->
        IF existing[j].name \in names_in(crude_mix)
        THEN mix_volume(mix_crude_named(crude_mix, existing[j].name),
                        fillable_capacity, existing)
        ELSE initial_volume(existing[j])]
      \o [i \in 1..Len(SelectSeq(crude_mix, LAMBDA c : c.name \notin names_in(existing))) |->
            mix_volume(SelectSeq(crude_mix, LAMBDA c : c.name \notin names_in(existing))[i],
                       fillable_capacity, existing)]

\* One tank_allocation: every crude of the mix gets
\* fillable_capacity_for_this_cycle * percentage.
allocation_in_pool(params, crude_mix, pool, k) ==
    [tank_id |-> pool[k],
     total_capacity |-> params.tankCapacity,
     usable_capacity |-> fillable_capacity_for_this_cycle(params, pool, k),
     crude_volumes |->
        crude_volumes_of(crude_mix, fillable_capacity_for_this_cycle(params, pool, k),
                         existing_crudes(params, pool, k))]

tank_allocation(params, crude_mix, k) ==
    allocation_in_pool(params, crude_mix, final_tank_id_pool(params), k)

allocate_tanks_for_blend(params, crude_mix) ==
    [k \in 1..tanks_needed_to_fill(params) |-> tank_allocation(params, crude_mix, k)]

\* sum(crude_requirements.values()): the entries without 'InitialStock'
\* among their source cargoes
total_needed_to_purchase(tank_plan) ==
    seq_sum([k \in 1..Len(tank_plan) |->
        seq_sum([i \in 1..Len(tank_plan[k].crude_volumes) |->
                    IF tank_plan[k].crude_volumes[i].initial_stock THEN 0
                    ELSE tank_plan[k].crude_volumes[i].target_volume])])

\* int(multiplier) copies of a class for a multiplier >= 1, one copy for a
\* fractional multiplier >= 0.1
RECURSIVE copies(_, _)
copies(vt, n) == IF n <= 0 THEN <<>> ELSE <<vt>> \o copies(vt, n - 1)

RECURSIVE pattern_sequence(_, _, _)
pattern_sequence(vessels, combination, c) ==
    IF c > Len(VesselTypes) THEN <<>>
    ELSE IF VesselTypes[c] \in DOMAIN vessels /\ combination[c] > 0
         THEN (IF combination[c] >= 4 THEN copies(VesselTypes[c], combination[c] \div 4)
               ELSE <<VesselTypes[c]>>)
                  \o pattern_sequence(vessels, combination, c + 1)
         ELSE pattern_sequence(vessels, combination, c + 1)

\* the first class, in class order, of the largest capacity
largest_vessel(vessels) ==
    VesselTypes[CHOOSE c \in 1..Len(VesselTypes) :
        /\ VesselTypes[c] \in DOMAIN vessels
        /\ \A d \in 1..Len(VesselTypes) :
              VesselTypes[d] \in DOMAIN vessels =>
                 \/ vessels[VesselTypes[d]] < vessels[VesselTypes[c]]
                 \/ (vessels[VesselTypes[d]] = vessels[VesselTypes[c]] /\ d >= c)]

vessel_sequence_of(vessels, pattern) ==
    IF pattern.found /\ pattern_sequence(vessels, pattern.combination, 1) # <<>>
    THEN pattern_sequence(vessels, pattern.combination, 1)
    ELSE <<largest_vessel(vessels)>>

max_cargos == 200
min_cargo_size == 10

\* vessel of cargo number cargo_id
cargo_vessel_type(params, vessels, vessel_sequence, cargo_id) ==
    IF "ulcc" \in DOMAIN vessels /\ cargo_id <= params.minUlccRequired THEN "ulcc"
    ELSE IF "vlcc" \in DOMAIN vessels
            /\ cargo_id <= params.minUlccRequired + params.minVlccRequired THEN "vlcc"
    ELSE vessel_sequence[((cargo_id - 1) % Len(vessel_sequence)) + 1]

\* A cargo of the full capacity of its vessel, whatever is still needed.
full_cargo_size(params, vessels, vessel_sequence, cargo_id, remaining_needed) ==
    vessels[cargo_vessel_type(params, vessels, vessel_sequence, cargo_id)]

cargo_size_to_schedule(params, vessels, vessel_sequence, cargo_id, remaining_needed) ==
    IF vessels[cargo_vessel_type(params, vessels, vessel_sequence, cargo_id)] < remaining_needed
    THEN vessels[cargo_vessel_type(params, vessels, vessel_sequence, cargo_id)]
    ELSE remaining_needed

scheduled_cargo(params, vessels, crude_names, vessel_sequence, cargo_id, remaining_needed) ==
    [cargo_id |-> cargo_id,
     vessel_type |-> cargo_vessel_type(params, vessels, vessel_sequence, cargo_id),
     vessel_name |-> <<cargo_vessel_type(params, vessels, vessel_sequence, cargo_id), cargo_id>>,
     crude_name |-> crude_names[((cargo_id - 1) % Len(crude_names)) + 1],
     size |-> cargo_size_to_schedule(params, vessels, vessel_sequence, cargo_id,
                                     remaining_needed)]

\* The while loop of _generate_optimal_cargo_mix: one cargo per pass, the
\* crude and the vessel both taken round-robin.
RECURSIVE cargo_mix_loop(_, _, _, _, _, _, _)
cargo_mix_loop(params, vessels, crude_names, vessel_sequence, needed, scheduled, schedule) ==
    IF scheduled >= needed THEN schedule
    ELSE IF Len(schedule) + 1 > max_cargos THEN schedule
    ELSE IF cargo_size_to_schedule(params, vessels, vessel_sequence, Len(schedule) + 1,
                                   needed - scheduled) < min_cargo_size THEN schedule
    ELSE cargo_mix_loop(params, vessels, crude_names, vessel_sequence, needed,
             scheduled + cargo_size_to_schedule(params, vessels, vessel_sequence,
                                                Len(schedule) + 1, needed - scheduled),
             Append(schedule, scheduled_cargo(params, vessels, crude_names, vessel_sequence,
                                        Len(schedule) + 1, needed - scheduled)))

generate_optimal_cargo_mix(params, vessels, crude_mix, tank_plan, pattern) ==
    IF Len(tank_plan) = 0 THEN <<>>
    ELSE cargo_mix_loop(params, vessels, crude_names_of(crude_mix),
                        vessel_sequence_of(vessels, pattern),
                        total_needed_to_purchase(tank_plan), 0, <<>>)

\* total_by_crude[crude_name]
total_by_crude(schedule, crude_name) ==
    seq_sum([k \in 1..Len(schedule) |->
                IF schedule[k].crude_name = crude_name THEN schedule[k].size ELSE 0])

total_volume_of(schedule) == seq_sum([k \in 1..Len(schedule) |-> schedule[k].size])

\* current_actual_ratios
actual_ratios_of(schedule, crude_mix) ==
    [i \in 1..Len(crude_mix) |->
        IF total_volume_of(schedule) > 0
        THEN ratio_of(total_by_crude(schedule, crude_mix[i].name), total_volume_of(schedule))
        ELSE 0]

RECURSIVE seq_max(_)
seq_max(q) ==
    IF q = <<>> THEN 0
    ELSE IF Head(q) > seq_max(Tail(q)) THEN Head(q) ELSE seq_max(Tail(q))

max_deviation_of(actual_ratios, base_ratios) ==
    seq_max([i \in 1..Len(base_ratios) |-> abs(actual_ratios[i] - base_ratios[i])])

max_iterations == 10
tolerance == 1000
feedback_gain_tenths == 8
min_target_ratio == 1000

\* max(0.001, current_target - 0.8 * (actual - base))
adjusted_target(current_target, actual, base) ==
    IF current_target - ((actual - base) * feedback_gain_tenths) \div 10 < min_target_ratio
    THEN min_target_ratio
    ELSE current_target - ((actual - base) * feedback_gain_tenths) \div 10

new_targets_of(current_target_ratios, actual_ratios, base_ratios) ==
    [i \in 1..Len(base_ratios) |->
        adjusted_target(current_target_ratios[i], actual_ratios[i], base_ratios[i])]

\* [t / total_new for t in new_targets]
normalised(new_targets) ==
    [i \in 1..Len(new_targets) |-> ratio_of(new_targets[i], seq_sum(new_targets))]

\* A comparison that keeps the first pass as the best whatever comes later.
improves_first_only(best_deviation, max_deviation) ==
    best_deviation < 0

\* max_deviation < best_deviation, best_deviation starting at infinity (-1)
improves(best_deviation, max_deviation) ==
    best_deviation < 0 \/ max_deviation < best_deviation

\* One pass of the loop of _iterative_cargo_optimization, given the pattern
\* of the pass, its schedule and the schedule's actual ratios.
pass_outcome(o, pattern, schedule, actual_ratios) ==
    [o EXCEPT
        !.iteration = o.iteration + 1,
        !.current_vessel_pattern = pattern,
        !.current_actual_ratios = actual_ratios,
        !.max_deviation = max_deviation_of(actual_ratios, base_ratios_of(o.crude_mix)),
        !.best_schedule =
            IF improves(o.best_deviation,
                        max_deviation_of(actual_ratios, base_ratios_of(o.crude_mix)))
            THEN schedule ELSE o.best_schedule,
        !.best_deviation =
            IF improves(o.best_deviation,
                        max_deviation_of(actual_ratios, base_ratios_of(o.crude_mix)))
            THEN max_deviation_of(actual_ratios, base_ratios_of(o.crude_mix))
            ELSE o.best_deviation,
        !.current_target_ratios =
            IF max_deviation_of(actual_ratios, base_ratios_of(o.crude_mix)) <= tolerance
            THEN o.current_target_ratios
            ELSE IF o.iteration < max_iterations - 1
            THEN normalised(new_targets_of(o.current_target_ratios, actual_ratios,
                                           base_ratios_of(o.crude_mix)))
            ELSE o.current_target_ratios,
        !.iterations_log = Append(o.iterations_log,
            [schedule |-> schedule,
             max_deviation |-> max_deviation_of(actual_ratios, base_ratios_of(o.crude_mix)),
             target_ratios |-> o.current_target_ratios,
             pattern |-> pattern]),
        !.stage =
            IF max_deviation_of(actual_ratios, base_ratios_of(o.crude_mix)) <= tolerance
               \/ o.iteration + 1 >= max_iterations
            THEN "format" ELSE "iterate"]

pass_with_schedule(o, pattern, schedule) ==
    pass_outcome(o, pattern, schedule, actual_ratios_of(schedule, o.crude_mix))

pass_with_pattern(o, pattern) ==
    pass_with_schedule(o, pattern,
        generate_optimal_cargo_mix(o.params, o.vessels, o.crude_mix, o.tank_plan, pattern))

\* the pattern of a pass: the seed in the first pass, afterwards the search
\* under the adjusted targets, the previous pattern being kept when the
\* search finds none
new_pattern(o, found_pattern) ==
    IF found_pattern.found THEN found_pattern ELSE o.current_vessel_pattern

iteration_pass(o) ==
    IF o.iteration > 0
    THEN pass_with_pattern(o,
            new_pattern(o, find_optimal_vessel_combination(o.vessels, o.current_target_ratios)))
    ELSE pass_with_pattern(o, o.current_vessel_pattern)

\* _create_tank_filling_schedule -----------------------------------------
planning_threshold == 1

RECURSIVE matching_cargoes(_, _, _, _)
matching_cargoes(schedule, cargo_volumes, crude_name, k) ==
    IF k > Len(schedule) THEN <<>>
    ELSE IF schedule[k].crude_name = crude_name
            /\ cargo_volumes[schedule[k].cargo_id] > planning_threshold
         THEN <<schedule[k]>>
                 \o matching_cargoes(schedule, cargo_volumes, crude_name, k + 1)
         ELSE matching_cargoes(schedule, cargo_volumes, crude_name, k + 1)

\* min(volume_needed, available_in_cargo)
volume_to_take(target_volume, acc, cargo) ==
    IF target_volume - acc.filled_volume < acc.cargo_volumes[cargo.cargo_id]
    THEN target_volume - acc.filled_volume
    ELSE acc.cargo_volumes[cargo.cargo_id]

take_from_cargo(tank, crude_name, cargo, acc, volume) ==
    [filling_schedule |-> Append(acc.filling_schedule,
        [tank_id |-> tank.tank_id,
         cargo_id |-> cargo.cargo_id,
         vessel_name |-> cargo.vessel_name,
         crude_type |-> crude_name,
         volume |-> volume]),
     cargo_volumes |-> [acc.cargo_volumes EXCEPT ![cargo.cargo_id] = @ - volume],
     filled_volume |-> acc.filled_volume + volume]

RECURSIVE fill_from_cargoes(_, _, _, _, _)
fill_from_cargoes(tank, crude, matching, k, acc) ==
    IF k > Len(matching) THEN acc
    ELSE IF acc.filled_volume >= crude.target_volume - planning_threshold THEN acc
    ELSE IF volume_to_take(crude.target_volume, acc, matching[k]) > planning_threshold
         THEN fill_from_cargoes(tank, crude, matching, k + 1,
                  take_from_cargo(tank, crude.crude_name, matching[k], acc,
                                  volume_to_take(crude.target_volume, acc, matching[k])))
         ELSE fill_from_cargoes(tank, crude, matching, k + 1, acc)

RECURSIVE fill_crudes(_, _, _, _)
fill_crudes(schedule, tank, i, acc) ==
    IF i > Len(tank.crude_volumes) THEN acc
    ELSE IF tank.crude_volumes[i].initial_stock THEN fill_crudes(schedule, tank, i + 1, acc)
    ELSE fill_crudes(schedule, tank, i + 1,
             fill_from_cargoes(tank, tank.crude_volumes[i],
                 matching_cargoes(schedule, acc.cargo_volumes,
                                  tank.crude_volumes[i].crude_name, 1),
                 1, [acc EXCEPT !.filled_volume = 0]))

RECURSIVE fill_tanks(_, _, _, _)
fill_tanks(schedule, tank_plan, k, acc) ==
    IF k > Len(tank_plan) THEN acc
    ELSE fill_tanks(schedule, tank_plan, k + 1,
                    fill_crudes(schedule, tank_plan[k], 1, acc))

create_tank_filling_schedule(schedule, tank_plan) ==
    fill_tanks(schedule, tank_plan, 1,
        [filling_schedule |-> <<>>,
         cargo_volumes |-> [k \in 1..Len(schedule) |-> schedule[k].size],
         filled_volume |-> 0]).filling_schedule

\* _generate_mass_balance ---------------------------------------------------
total_allocated(tank_filling_plan, cargo_id) ==
    seq_sum([k \in 1..Len(tank_filling_plan) |->
                IF tank_filling_plan[k].cargo_id = cargo_id
                THEN tank_filling_plan[k].volume ELSE 0])

generate_mass_balance(schedule, tank_filling_plan) ==
    [k \in 1..Len(schedule) |->
        [vessel_name |-> schedule[k].vessel_name,
         cargo_id |-> schedule[k].cargo_id,
         crude_type |-> schedule[k].crude_name,
         total_size |-> schedule[k].size,
         allocated |-> total_allocated(tank_filling_plan, schedule[k].cargo_id),
         unallocated |-> schedule[k].size
                           - total_allocated(tank_filling_plan, schedule[k].cargo_id)]]

\* _format_final_schedule, then steps 3 to 5 of solve_crude_mix_schedule
success_result(o, tank_filling_plan) ==
    [success |-> TRUE,
     cargo_schedule |-> o.best_schedule,
     actual_ratios |-> actual_ratios_of(o.best_schedule, o.crude_mix),
     tank_filling_plan |-> tank_filling_plan,
     mass_balance |-> generate_mass_balance(o.best_schedule, tank_filling_plan),
     tank_sequence |-> [k \in 1..Len(o.tank_plan) |-> o.tank_plan[k].tank_id]]

failure_result(error) == [success |-> FALSE, error |-> error]

\* `if best_schedule:` an empty list is no schedule
final_result(o) ==
    IF o.best_schedule # <<>>
    THEN success_result(o, create_tank_filling_schedule(o.best_schedule, o.tank_plan))
    ELSE failure_result("Failed to generate schedule")

\* The optimizer before solve_crude_mix_schedule is called on params.
new_optimizer(params) ==
    [stage |-> "start",
     params |-> params,
     crude_mix |-> <<>>,
     vessels |-> <<>>,
     tank_plan |-> <<>>,
     iteration |-> 0,
     current_target_ratios |-> <<>>,
     current_vessel_pattern |-> no_combination,
     current_actual_ratios |-> <<>>,
     max_deviation |-> 0,
     best_schedule |-> <<>>,
     best_deviation |-> -1,
     iterations_log |-> <<>>,
     result |-> <<>>]

failed(o, error) == [o EXCEPT !.stage = "done", !.result = failure_result(error)]

\* solve_crude_mix_schedule up to the call of _iterative_cargo_optimization
start_solve(o, crude_mix, vessels) ==
    IF crude_mix = <<>> THEN failed(o, "No crude mix configuration")
    ELSE IF percentages_off(crude_mix) THEN failed(o, "Crude percentages must sum to 100%")
    ELSE IF DOMAIN vessels = {} THEN failed(o, "No vessel types available")
    ELSE IF allocation_raises(o.params) THEN failed(o, "float division by zero")
    ELSE [o EXCEPT
            !.stage = "iterate",
            !.crude_mix = crude_mix,
            !.vessels = vessels,
            !.tank_plan = allocate_tanks_for_blend(o.params, crude_mix),
            !.current_target_ratios = base_ratios_of(crude_mix),
            !.current_vessel_pattern =
                find_optimal_vessel_combination(vessels, base_ratios_of(crude_mix))]

solve_crude_mix_schedule(o) ==
    start_solve(o, extract_crude_mix(o.params), extract_vessel_data(o.params))

\* Inputs of the optimizer --------------------------------------------------
crude_name_list == <<"Crude A", "Crude B", "Crude C">>

CrudePercentageChoices ==
    {<<500, 500>>, <<600, 400>>, <<700, 300>>, <<600, 395>>, <<605, 400>>,
     <<500, 300, 200>>, <<600, 300>>, <<0, 0>>, <<1000>>}

no_vessels == [vt \in {VesselTypes[c] : c \in 1..Len(VesselTypes)} |-> 0]

CapacityChoices ==
    {no_vessels,
     [no_vessels EXCEPT !["ulcc"] = 200, !["vlcc"] = 150],
     [no_vessels EXCEPT !["vlcc"] = 150, !["suezmax"] = 100],
     [no_vessels EXCEPT !["ulcc"] = 200, !["vlcc"] = 150, !["suezmax"] = 100],
     [no_vessels EXCEPT !["ulcc"] = 120, !["vlcc"] = 80],
     [no_vessels EXCEPT !["ulcc"] = 5, !["vlcc"] = 150, !["suezmax"] = 100,
                        !["handy_size"] = 5],
     [no_vessels EXCEPT !["handy_size"] = 5]}

TankCapacityChoices == {210, 10}

optimizer_params(percentages, capacity, tank_capacity) ==
    [processingRate |-> 100,
     schedulingWindow |-> 2,
     tankCapacity |-> tank_capacity,
     deadBottom1 |-> 8,
     bufferVolume |-> 4,
     crude_names |-> SubSeq(crude_name_list, 1, Len(percentages)),
     crude_percentages |-> percentages,
     capacity |-> capacity,
     minUlccRequired |-> 0,
     minVlccRequired |-> 0,
     tank_levels |-> <<210, 8, 8>>,
     idleTankData |-> <<>>]

OptimizerParams ==
    {optimizer_params(p, c, 210) : p \in CrudePercentageChoices, c \in CapacityChoices}
        \cup {optimizer_params(<<600, 400>>, c, 10) : c \in CapacityChoices}

SolveCrudeMixSchedule ==
    /\ optimizer.stage = "start"
    /\ optimizer' = solve_crude_mix_schedule(optimizer)
    /\ UNCHANGED <<schedulercfgvars, simvars, loopvars>>

IterativeCargoOptimization ==
    /\ optimizer.stage = "iterate"
    /\ optimizer' = iteration_pass(optimizer)
    /\ UNCHANGED <<schedulercfgvars, simvars, loopvars>>

FormatFinalSchedule ==
    /\ optimizer.stage = "format"
    /\ optimizer' = [optimizer EXCEPT !.stage = "done", !.result = final_result(optimizer)]
    /\ UNCHANGED <<schedulercfgvars, simvars, loopvars>>

\* The optimizer runs before a simulator exists: the scheduler's variables
\* hold a simulator that never runs.
OptimizerInit ==
    /\ \E params \in OptimizerParams : optimizer = new_optimizer(params)
    /\ initial_tank_levels = CHOOSE f \in InitialLevels : \A i \in all_tank_ids : f[i] # level_empty
    /\ snapshot_interval_minutes = 360
    /\ lab_hours = 0
    /\ tank_fill_gap_hours = tank_fill_gap_default
    /\ first_cargo_max_ready = first_cargo_max_ready_cfg
    /\ max_days = horizon_days
    /\ cfg_manual_arrival = [b \in BerthIds |-> ManualMissing]
    /\ \E sim \in {new_simulator(initial_tank_levels, lab_hours, snapshot_interval_minutes)} :
           InitFrom(sim)
    /\ pc = "done"
    /\ day_index = 0
    /\ now = 0
    /\ total_processed_today = 0
    /\ true_opening_stock = 0
    /\ certified_stock = 0

OptimizerNext ==
    \/ SolveCrudeMixSchedule
    \/ IterativeCargoOptimization
    \/ FormatFinalSchedule

OptimizerSpec == OptimizerInit /\ [][OptimizerNext]_vars

\* The levels of the runs with a solver plan: the first tank full, the
\* second full or empty, the idle tank empty or partly filled.
SolverLevelChoices ==
    {f \in InitialLevels : f[1] = level_full /\ f[2] \in {level_empty, level_full}
                              /\ f[3] \in {level_empty, level_partial}}

\* A run that asks for the optimized schedule, in solver or manual
\* scheduling mode; the plan loads or fails to load.
SolverInit ==
    /\ initial_tank_levels \in SolverLevelChoices
    /\ snapshot_interval_minutes = 360
    /\ lab_hours = 0
    /\ tank_fill_gap_hours = tank_fill_gap_default
    /\ first_cargo_max_ready = first_cargo_max_ready_cfg
    /\ max_days = horizon_days
    /\ cfg_manual_arrival \in ManualArrivalChoices
    /\ \E mode \in SchedulingModeChoices, solver_initialized \in BOOLEAN :
           \E sim \in {init_solver(
                           configure_scheduling(
                               new_simulator(initial_tank_levels, lab_hours,
                                             snapshot_interval_minutes),
                               mode, cfg_manual_arrival),
                           TRUE, solver_initialized)} :
               InitFrom(sim)
    /\ optimizer = idle_optimizer
    /\ pc = "run"
    /\ day_index = 0
    /\ now = 0
    /\ total_processed_today = 0
    /\ true_opening_stock = 0
    /\ certified_stock = 0

SolverSpec == SolverInit /\ [][Next]_vars

\* The runs of the simulator with and without a solver plan.
AnyPlanSpec == (Init \/ SolverInit) /\ [][Next]_vars

\* ---------------------------------------------------------------------
\* The runs with a plan whose master sequence is the pool of
\* _allocate_tanks_for_blend: the repeating sequence goes round until
\* tanks_needed tanks are listed, the last round cut where the count is
\* reached.
\* ---------------------------------------------------------------------
tank_id_pool(tanks_needed) ==
    [k \in 1..tanks_needed |->
        <<base_tank_id(planned_tank_sequence[((k - 1) % Len(planned_tank_sequence)) + 1]),
          (k - 1) \div Len(planned_tank_sequence)>>]

\* the numbers of tanks to fill: one round, and one tank more
TanksNeededChoices == {Len(planned_tank_sequence), Len(planned_tank_sequence) + 1}

PoolPlanInit ==
    /\ initial_tank_levels \in SolverLevelChoices
    /\ snapshot_interval_minutes = 360
    /\ lab_hours = 0
    /\ tank_fill_gap_hours = tank_fill_gap_default
    /\ first_cargo_max_ready = first_cargo_max_ready_cfg
    /\ max_days = horizon_days
    /\ cfg_manual_arrival \in ManualArrivalChoices
    /\ \E mode \in SchedulingModeChoices, tanks_needed \in TanksNeededChoices :
           \E sim \in {[init_solver(
                           configure_scheduling(
                               new_simulator(initial_tank_levels, lab_hours,
                                             snapshot_interval_minutes),
                               mode, cfg_manual_arrival),
                           TRUE, TRUE)
                        EXCEPT !.solver_tank_sequence = tank_id_pool(tanks_needed)]} :
               InitFrom(sim)
    /\ optimizer = idle_optimizer
    /\ pc = "run"
    /\ day_index = 0
    /\ now = 0
    /\ total_processed_today = 0
    /\ true_opening_stock = 0
    /\ certified_stock = 0

PoolPlanSpec == PoolPlanInit /\ [][Next]_vars

\* ---------------------------------------------------------------------
\* The runs with and without a gap between the fills of a cargo
\* (cfg["tankFillGapHours"]), in standard mode and with a solver plan.
\* ---------------------------------------------------------------------
TankFillGapChoices == {tank_fill_gap_default, tank_fill_gap_default + 1}

GapInit ==
    /\ tank_fill_gap_hours \in TankFillGapChoices
    /\ first_cargo_max_ready = first_cargo_max_ready_cfg
    /\ snapshot_interval_minutes \in SnapshotIntervalChoices
    /\ lab_hours = 0
    /\ max_days = horizon_days
    /\ \/ /\ initial_tank_levels \in InitialLevels
          /\ cfg_manual_arrival = [b \in BerthIds |-> ManualMissing]
          /\ \E sim \in {[new_simulator(initial_tank_levels, lab_hours,
                                        snapshot_interval_minutes)
                            EXCEPT !.tank_fill_gap_hours = tank_fill_gap_hours]} :
                InitFrom(sim)
       \/ /\ initial_tank_levels \in SolverLevelChoices
          /\ cfg_manual_arrival = [b \in BerthIds |-> ManualMissing]
          /\ \E sim \in {[init_solver(
                              configure_scheduling(
                                  new_simulator(initial_tank_levels, lab_hours,
                                                snapshot_interval_minutes),
                                  "solver", cfg_manual_arrival),
                              TRUE, TRUE)
                            EXCEPT !.tank_fill_gap_hours = tank_fill_gap_hours]} :
                InitFrom(sim)
    /\ optimizer = idle_optimizer
    /\ pc = "run"
    /\ day_index = 0
    /\ now = 0
    /\ total_processed_today = 0
    /\ true_opening_stock = 0
    /\ certified_stock = 0

GapSpec == GapInit /\ [][Next]_vars

\* ---------------------------------------------------------------------
\* The runs in standard mode with the first cargo's window of READY tanks
\* as configured, or closing one tank lower.
\* ---------------------------------------------------------------------
FirstCargoMaxChoices == {first_cargo_max_ready_cfg - 1, first_cargo_max_ready_cfg}

WindowInit ==
    /\ first_cargo_max_ready \in FirstCargoMaxChoices
    /\ tank_fill_gap_hours = tank_fill_gap_default
    /\ initial_tank_levels \in InitialLevels
    /\ snapshot_interval_minutes \in SnapshotIntervalChoices
    /\ lab_hours = 0
    /\ max_days = horizon_days
    /\ cfg_manual_arrival = [b \in BerthIds |-> ManualMissing]
    /\ \E sim \in {[new_simulator(initial_tank_levels, lab_hours, snapshot_interval_minutes)
                      EXCEPT !.first_cargo_max_ready = first_cargo_max_ready]} :
          InitFrom(sim)
    /\ optimizer = idle_optimizer
    /\ pc = "run"
    /\ day_index = 0
    /\ now = 0
    /\ total_processed_today = 0
    /\ true_opening_stock = 0
    /\ certified_stock = 0

WindowSpec == WindowInit /\ [][Next]_vars

\* ---------------------------------------------------------------------
\* The runs with a loaded plan in solver scheduling mode that are one day
\* longer: the second cargo of a berth is dispatched in them.
\* ---------------------------------------------------------------------
LongSolverInit ==
    /\ initial_tank_levels \in InitialLevels
    /\ snapshot_interval_minutes \in SnapshotIntervalChoices
    /\ lab_hours = 0
    /\ tank_fill_gap_hours = tank_fill_gap_default
    /\ first_cargo_max_ready = first_cargo_max_ready_cfg
    /\ max_days = horizon_days + 1
    /\ cfg_manual_arrival = [b \in BerthIds |-> ManualMissing]
    /\ \E sim \in {init_solver(
                       configure_scheduling(
                           new_simulator(initial_tank_levels, lab_hours,
                                         snapshot_interval_minutes),
                           "solver", cfg_manual_arrival),
                       TRUE, TRUE)} :
          InitFrom(sim)
    /\ optimizer = idle_optimizer
    /\ pc = "run"
    /\ day_index = 0
    /\ now = 0
    /\ total_processed_today = 0
    /\ true_opening_stock = 0
    /\ certified_stock = 0

LongSolverSpec == LongSolverInit /\ [][Next]_vars

\* ---------------------------------------------------------------------
\* The construction over the starting levels around the thresholds of the
\* initial state, for every tank: nothing, the unusable floor, partly
\* filled, one barrel below the tolerance of a full tank, at it, and full.
\* ---------------------------------------------------------------------
ConstructionLevelChoices ==
    {level_empty, unusable_per_tank, level_partial,
     level_full - full_tolerance - 1, level_full - full_tolerance, level_full}

ConstructionInit ==
    /\ initial_tank_levels \in [all_tank_ids -> ConstructionLevelChoices]
    /\ snapshot_interval_minutes = 360
    /\ lab_hours = 0
    /\ tank_fill_gap_hours = tank_fill_gap_default
    /\ first_cargo_max_ready = first_cargo_max_ready_cfg
    /\ max_days = horizon_days - 1
    /\ cfg_manual_arrival = [b \in BerthIds |-> ManualMissing]
    /\ \E sim \in {new_simulator(initial_tank_levels, lab_hours, snapshot_interval_minutes)} :
          InitFrom(sim)
    /\ optimizer = idle_optimizer
    /\ pc = "run"
    /\ day_index = 0
    /\ now = 0
    /\ total_processed_today = 0
    /\ true_opening_stock = 0
    /\ certified_stock = 0

ConstructionSpec == ConstructionInit /\ [][Next]_vars

\* ---------------------------------------------------------------------
\* The simulation over step lengths of six hours and of seven and a half
\* hours (cfg["snapshot_interval_minutes"]): the longer step takes more than
\* a tank that is READY at the tolerance of a full tank holds.
\* ---------------------------------------------------------------------
StepIntervalChoices == {360, 450}

StepLevelChoices == {level_empty, level_full - full_tolerance, level_full}

StepInit ==
    /\ initial_tank_levels \in [all_tank_ids -> StepLevelChoices]
    /\ snapshot_interval_minutes \in StepIntervalChoices
    /\ lab_hours = 0
    /\ tank_fill_gap_hours = tank_fill_gap_default
    /\ first_cargo_max_ready = first_cargo_max_ready_cfg
    /\ max_days = horizon_days - 1
    /\ cfg_manual_arrival = [b \in BerthIds |-> ManualMissing]
    /\ \E sim \in {new_simulator(initial_tank_levels, lab_hours, snapshot_interval_minutes)} :
          InitFrom(sim)
    /\ optimizer = idle_optimizer
    /\ pc = "run"
    /\ day_index = 0
    /\ now = 0
    /\ total_processed_today = 0
    /\ true_opening_stock = 0
    /\ certified_stock = 0

StepSpec == StepInit /\ [][Next]_vars

\* ---------------------------------------------------------------------
\* _allocate_tanks_for_blend on its own, over tank levels, idle tank data,
\* scheduling windows and crude mixes.  Volumes in hundreds of barrels:
\* tanks of 210 with a floor of 10, 200 usable.
\* ---------------------------------------------------------------------
AllocationLevelChoices ==
    {<<210, 8, 8>>, <<8, 110, 210>>, <<110, 110, 110>>,
     <<200, 200, 200, 200, 200, 200, 8>>, <<8, 11, 12, 8, 210, 8, 8>>}

IdleTankIdChoices == {{}, {3}, {1, 3}, {1, 2, 3, 4, 5, 6}, {2, 9}}

\* the initial crudes of an idle tank: a crude of its own, a crude the
\* target mix names too, two crudes, and a crude without volume
InitialCrudeChoices ==
    {<<[name |-> "Crude X", volume |-> 100]>>,
     <<[name |-> "Crude A", volume |-> 100]>>,
     <<[name |-> "Crude X", volume |-> 60], [name |-> "Crude B", volume |-> 40]>>,
     <<[name |-> "Crude X", volume |-> 0]>>}

SchedulingWindowChoices == {2, 5}

AllocationMixChoices == {<<600, 400>>, <<500, 300, 200>>}

allocation_params(levels, idle_ids, crudes, window, percentages) ==
    [optimizer_params(percentages, no_vessels, 210) EXCEPT
        !.tank_levels = levels,
        !.schedulingWindow = window,
        !.idleTankData = [n \in idle_ids |-> crudes]]

AllocationParams ==
    {allocation_params(levels, idle_ids, crudes, window, percentages) :
        levels \in AllocationLevelChoices, idle_ids \in IdleTankIdChoices,
        crudes \in InitialCrudeChoices, window \in SchedulingWindowChoices,
        percentages \in AllocationMixChoices}

\* tank_plan = self._allocate_tanks_for_blend(...)
AllocateTanksForBlend ==
    /\ optimizer.stage = "allocate"
    /\ optimizer' = [optimizer EXCEPT
                        !.stage = "allocated",
                        !.crude_mix = extract_crude_mix(optimizer.params),
                        !.tank_plan = allocate_tanks_for_blend(
                                          optimizer.params,
                                          extract_crude_mix(optimizer.params))]
    /\ UNCHANGED <<schedulercfgvars, simvars, loopvars>>

AllocationInit ==
    /\ \E params \in AllocationParams :
           optimizer = [new_optimizer(params) EXCEPT !.stage = "allocate"]
    /\ initial_tank_levels = CHOOSE f \in InitialLevels : \A i \in all_tank_ids : f[i] # level_empty
    /\ snapshot_interval_minutes = 360
    /\ lab_hours = 0
    /\ tank_fill_gap_hours = tank_fill_gap_default
    /\ first_cargo_max_ready = first_cargo_max_ready_cfg
    /\ max_days = horizon_days
    /\ cfg_manual_arrival = [b \in BerthIds |-> ManualMissing]
    /\ \E sim \in {new_simulator(initial_tank_levels, lab_hours, snapshot_interval_minutes)} :
           InitFrom(sim)
    /\ pc = "done"
    /\ day_index = 0
    /\ now = 0
    /\ total_processed_today = 0
    /\ true_opening_stock = 0
    /\ certified_stock = 0

AllocationSpec == AllocationInit /\ [][AllocateTanksForBlend]_vars

\* ---------------------------------------------------------------------
\* _generate_optimal_cargo_mix on its own, over crude mixes, vessel
\* capacities, scheduling windows and forced ULCC and VLCC counts, with
\* the pattern of the search or with none.
\* ---------------------------------------------------------------------
CargoMixPercentageChoices == {<<600, 400>>, <<500, 300, 200>>, <<1000>>}

CargoMixCapacityChoices ==
    (CapacityChoices \ {no_vessels}) \cup {[no_vessels EXCEPT !["handy_size"] = min_cargo_size]}

CargoMixWindowChoices == {2, 5}

\* a window long enough for more than 200 cargos of the smallest class
LongWindowChoices == {20}

ForcedUlccChoices == {0, 2}

ForcedVlccChoices == {0, 1}

cargo_mix_params(percentages, capacity, window, ulcc, vlcc) ==
    [optimizer_params(percentages, capacity, 210) EXCEPT
        !.schedulingWindow = window,
        !.minUlccRequired = ulcc,
        !.minVlccRequired = vlcc]

CargoMixParams ==
    {cargo_mix_params(percentages, capacity, window, ulcc, vlcc) :
        percentages \in CargoMixPercentageChoices, capacity \in CargoMixCapacityChoices,
        window \in CargoMixWindowChoices, ulcc \in ForcedUlccChoices,
        vlcc \in ForcedVlccChoices}
      \cup {cargo_mix_params(percentages, [no_vessels EXCEPT !["handy_size"] = min_cargo_size],
                             window, 0, 0) :
               percentages \in CargoMixPercentageChoices, window \in LongWindowChoices}

\* the optimizer at the call of _generate_optimal_cargo_mix, with the
\* locals of its while loop
before_cargo_mix(params, with_pattern) ==
    [schedule |-> <<>>, total_scheduled_volume |-> 0]
      @@ [new_optimizer(params) EXCEPT
            !.stage = "cargo_mix",
            !.crude_mix = extract_crude_mix(params),
            !.vessels = extract_vessel_data(params),
            !.tank_plan = allocate_tanks_for_blend(params, extract_crude_mix(params)),
            !.current_vessel_pattern =
                IF with_pattern
                THEN find_optimal_vessel_combination(extract_vessel_data(params),
                                                     base_ratios_of(extract_crude_mix(params)))
                ELSE no_combination]

\* the while condition and the two breaks of a pass
cargo_mix_stops(params, vessels, vessel_sequence, needed, scheduled, cargo_id) ==
    \/ scheduled >= needed
    \/ cargo_id > max_cargos
    \/ cargo_size_to_schedule(params, vessels, vessel_sequence, cargo_id,
                              needed - scheduled) < min_cargo_size

\* one pass of the while loop: the loop is left, or a cargo is appended
cargo_mix_pass(o, vessel_sequence, needed) ==
    IF cargo_mix_stops(o.params, o.vessels, vessel_sequence, needed,
                       o.total_scheduled_volume, Len(o.schedule) + 1)
    THEN [o EXCEPT !.stage = "cargo_mix_done"]
    ELSE [o EXCEPT
            !.schedule = Append(@, scheduled_cargo(o.params, o.vessels,
                                       crude_names_of(o.crude_mix), vessel_sequence,
                                       Len(o.schedule) + 1,
                                       needed - o.total_scheduled_volume)),
            !.total_scheduled_volume =
                @ + cargo_size_to_schedule(o.params, o.vessels, vessel_sequence,
                                           Len(o.schedule) + 1,
                                           needed - o.total_scheduled_volume)]

\* schedule = self._generate_optimal_cargo_mix(...), pass by pass
GenerateOptimalCargoMix ==
    /\ optimizer.stage = "cargo_mix"
    /\ optimizer' = cargo_mix_pass(optimizer,
                        vessel_sequence_of(optimizer.vessels, optimizer.current_vessel_pattern),
                        total_needed_to_purchase(optimizer.tank_plan))
    /\ UNCHANGED <<schedulercfgvars, simvars, loopvars>>

CargoMixInit ==
    /\ \E params \in CargoMixParams, with_pattern \in BOOLEAN :
           optimizer = before_cargo_mix(params, with_pattern)
    /\ initial_tank_levels = CHOOSE f \in InitialLevels : \A i \in all_tank_ids : f[i] # level_empty
    /\ snapshot_interval_minutes = 360
    /\ lab_hours = 0
    /\ tank_fill_gap_hours = tank_fill_gap_default
    /\ first_cargo_max_ready = first_cargo_max_ready_cfg
    /\ max_days = horizon_days
    /\ cfg_manual_arrival = [b \in BerthIds |-> ManualMissing]
    /\ \E sim \in {new_simulator(initial_tank_levels, lab_hours, snapshot_interval_minutes)} :
           InitFrom(sim)
    /\ pc = "done"
    /\ day_index = 0
    /\ now = 0
    /\ total_processed_today = 0
    /\ true_opening_stock = 0
    /\ certified_stock = 0

CargoMixSpec == CargoMixInit /\ [][GenerateOptimalCargoMix]_vars

\* ---------------------------------------------------------------------
\* solve_crude_mix_schedule with its loops taken pass by pass: the while
\* loop of the tank pool, the for loop of the iterations and, within an
\* iteration, the while loop of the cargo generation.
\* ---------------------------------------------------------------------
\* the cycles of the pool loop that are followed
pool_cycle_bound == 12

\* solve_crude_mix_schedule up to the call of _allocate_tanks_for_blend
begin_solve(o, crude_mix, vessels) ==
    IF crude_mix = <<>> THEN failed(o, "No crude mix configuration")
    ELSE IF percentages_off(crude_mix) THEN failed(o, "Crude percentages must sum to 100%")
    ELSE IF DOMAIN vessels = {} THEN failed(o, "No vessel types available")
    ELSE IF allocation_raises(o.params) THEN failed(o, "float division by zero")
    ELSE [o EXCEPT
            !.stage = "pool",
            !.crude_mix = crude_mix,
            !.vessels = vessels,
            !.current_target_ratios = base_ratios_of(crude_mix),
            !.current_vessel_pattern =
                find_optimal_vessel_combination(vessels, base_ratios_of(crude_mix))]

\* one pass of `while len(final_tank_id_pool) < tanks_needed_to_fill`, or
\* the rest of _allocate_tanks_for_blend once the loop is left
pool_pass(o) ==
    IF Len(o.final_tank_id_pool) >= tanks_needed_to_fill(o.params)
    THEN [o EXCEPT
            !.stage = "iterate",
            !.tank_plan = [k \in 1..tanks_needed_to_fill(o.params) |->
                              allocation_in_pool(o.params, o.crude_mix,
                                                 o.final_tank_id_pool, k)]]
    ELSE [o EXCEPT
            !.final_tank_id_pool = extend_pool(dynamic_repeating_sequence(o.params), @,
                                               tanks_needed_to_fill(o.params),
                                               o.current_cycle, 1),
            !.current_cycle = @ + 1]

\* the head of an iteration: the pattern of the pass, and the entry of
\* _generate_optimal_cargo_mix (an empty tank plan returns no cargo)
begin_iteration(o) ==
    [o EXCEPT
        !.stage = IF Len(o.tank_plan) = 0 THEN "cargo_mix_done" ELSE "cargo_mix",
        !.current_vessel_pattern =
            IF o.iteration > 0
            THEN new_pattern(o, find_optimal_vessel_combination(o.vessels,
                                                                o.current_target_ratios))
            ELSE @,
        !.schedule = <<>>,
        !.total_scheduled_volume = 0]

TerminationParams ==
    {optimizer_params(p, c, 210) :
        p \in {<<600, 400>>, <<600, 395>>, <<600, 300>>},
        c \in {no_vessels,
               [no_vessels EXCEPT !["ulcc"] = 200, !["vlcc"] = 150],
               [no_vessels EXCEPT !["handy_size"] = 5]}}
      \cup {optimizer_params(<<600, 400>>, [no_vessels EXCEPT !["vlcc"] = 150], 10)}
      \cup {[optimizer_params(<<600, 400>>, [no_vessels EXCEPT !["vlcc"] = 150], 210)
                EXCEPT !.tank_levels = levels, !.idleTankData = idle] :
               levels \in {<<>>, <<8>>, <<210, 8, 8>>},
               idle \in {<<>>, [n \in {1} |-> <<[name |-> "Crude X", volume |-> 100]>>]}}

SolveBegins ==
    /\ optimizer.stage = "start"
    /\ optimizer' = begin_solve(optimizer, extract_crude_mix(optimizer.params),
                                extract_vessel_data(optimizer.params))
    /\ UNCHANGED <<schedulercfgvars, simvars, loopvars>>

PoolCycle ==
    /\ optimizer.stage = "pool"
    /\ \/ Len(optimizer.final_tank_id_pool) >= tanks_needed_to_fill(optimizer.params)
       \/ optimizer.current_cycle < pool_cycle_bound
    /\ optimizer' = pool_pass(optimizer)
    /\ UNCHANGED <<schedulercfgvars, simvars, loopvars>>

IterationBegins ==
    /\ optimizer.stage = "iterate"
    /\ optimizer' = begin_iteration(optimizer)
    /\ UNCHANGED <<schedulercfgvars, simvars, loopvars>>

IterationEnds ==
    /\ optimizer.stage = "cargo_mix_done"
    /\ optimizer' = pass_with_schedule(optimizer, optimizer.current_vessel_pattern,
                                       optimizer.schedule)
    /\ UNCHANGED <<schedulercfgvars, simvars, loopvars>>

TerminationInit ==
    /\ \E params \in TerminationParams :
           optimizer = [schedule |-> <<>>, total_scheduled_volume |-> 0,
                        final_tank_id_pool |-> <<>>, current_cycle |-> 0]
                          @@ new_optimizer(params)
    /\ initial_tank_levels = CHOOSE f \in InitialLevels : \A i \in all_tank_ids : f[i] # level_empty
    /\ snapshot_interval_minutes = 360
    /\ lab_hours = 0
    /\ tank_fill_gap_hours = tank_fill_gap_default
    /\ first_cargo_max_ready = first_cargo_max_ready_cfg
    /\ max_days = horizon_days
    /\ cfg_manual_arrival = [b \in BerthIds |-> ManualMissing]
    /\ \E sim \in {new_simulator(initial_tank_levels, lab_hours, snapshot_interval_minutes)} :
           InitFrom(sim)
    /\ pc = "done"
    /\ day_index = 0
    /\ now = 0
    /\ total_processed_today = 0
    /\ true_opening_stock = 0
    /\ certified_stock = 0

TerminationNext ==
    \/ SolveBegins
    \/ PoolCycle
    \/ IterationBegins
    \/ GenerateOptimalCargoMix
    \/ IterationEnds
    \/ FormatFinalSchedule

TerminationSpec == TerminationInit /\ [][TerminationNext]_vars

\* ---------------------------------------------------------------------
\* The standard tank selection on any configured set of tank ids: the idle
\* tank's sequentialId lies inside or outside 1..num_tanks.
\* ---------------------------------------------------------------------
IdleIdChoices == {3, 5}

\* self.all_tank_ids for the idle tank id idle
configured_ids(idle) == (1..num_normal_tanks) \cup {idle}

\* the states of a tank that holds no fill and does not feed: the idle tank
\* is IDLE until its first fill completes
selection_states(i, idle) ==
    IF i = idle THEN {IDLE, READY} ELSE {EMPTY, SUSPENDED, READY}

SelectionStates(idle) ==
    {st \in [configured_ids(idle) -> {EMPTY, SUSPENDED, IDLE, READY}] :
        \A i \in configured_ids(idle) : st[i] \in selection_states(i, idle)}

selection_time == 6 * MinutesPerHour

\* ready_for_fill_at of a tank: datetime.min, or a rest that ends after the
\* selection
RestChoices == {datetime_min, selection_time + MinutesPerHour}

\* the volumes a cargo at the berth has left
RemainingChoices == {vlcc_volume, vlcc_volume - usable}

\* A simulator whose first cargo is at berth 1 since minute 60.
berthed_simulator ==
    schedule_cargos(
        new_simulator([i \in all_tank_ids |-> IF i = 2 THEN level_empty ELSE level_full],
                      0, selection_time),
        0,
        [b \in BerthIds |-> [gap |-> berth_gap_hours_min, cargo_type |-> "VLCC"]])

\* The volume of a tank in state st: full when READY, partly filled when
\* SUSPENDED or IDLE.
volume_in_state(st) ==
    IF st = READY THEN usable ELSE IF st \in {SUSPENDED, IDLE} THEN level_partial - unusable_per_tank
    ELSE 0

\* The simulator s with tank dicts of the keys DOMAIN st, the tanks in the
\* states st, resting until rest, the initially-empty list preferred, and
\* the first cargo alone at its berth with the volume remaining left in it.
with_tanks(s, st, rest, preferred, remaining) ==
    [s EXCEPT
       !.state = st,
       !.bbl = [i \in DOMAIN st |-> volume_in_state(st[i])],
       !.daily_consumption = [i \in DOMAIN st |-> 0],
       !.ready_for_fill_at = rest,
       !.ready_at = [i \in DOMAIN st |-> None],
       !.settle_end_at = [i \in DOMAIN st |-> None],
       !.lab_start_at = [i \in DOMAIN st |-> None],
       !.feed_start_volume = [i \in DOMAIN st |-> 0],
       !.tank_feed_start_time = [i \in DOMAIN st |-> None],
       !.tank_cycle_counter = [i \in DOMAIN st |-> 1],
       !.tank_mix = [i \in DOMAIN st |-> [c \in Crudes |-> 0]],
       !.initial_state = st,
       !.initially_empty_tanks = preferred,
       !.state_history = <<>>,
       !.active = 0,
       !.cargos = <<s.cargos[1]>>,
       !.berths = [b \in BerthIds |->
                      IF b = s.cargos[1].berth THEN s.berths[b]
                      ELSE [free_at |-> 0, current_cargo |-> NoCargo]],
       !.cargo_remaining_volume = [v \in {s.cargos[1].vessel_name} |-> remaining]]

\* A tank of the initially-empty list was never filled: it is EMPTY and has
\* no rest time.
never_filled(st, rest, preferred) ==
    \A k \in 1..Len(preferred) : st[preferred[k]] = EMPTY /\ rest[preferred[k]] = datetime_min

\* The initially-empty lists: the normal tanks in ascending order, some left out.
PreferredChoices == {<<>>, <<1>>, <<2>>, <<1, 2>>}

SelectionInit ==
    /\ \E idle \in IdleIdChoices, base \in {berthed_simulator} :
         \E st \in SelectionStates(idle),
            rest \in [configured_ids(idle) -> RestChoices],
            preferred \in PreferredChoices, remaining \in RemainingChoices :
              /\ never_filled(st, rest, preferred)
              /\ initial_tank_levels = [i \in configured_ids(idle) |->
                                           IF st[i] = EMPTY THEN level_empty ELSE level_full]
              /\ \E sim \in {with_tanks(base, st, rest, preferred, remaining)} :
                    InitFrom(sim)
    /\ snapshot_interval_minutes = selection_time
    /\ lab_hours = 0
    /\ tank_fill_gap_hours = tank_fill_gap_default
    /\ first_cargo_max_ready = first_cargo_max_ready_cfg
    /\ max_days = horizon_days
    /\ cfg_manual_arrival = [b \in BerthIds |-> ManualMissing]
    /\ optimizer = idle_optimizer
    /\ pc = "start_fill"
    /\ day_index = 0
    /\ now = selection_time
    /\ total_processed_today = 0
    /\ true_opening_stock = 0
    /\ certified_stock = 0

\* _maybe_start_fill(now) where a KeyError ends the run.
MaybeStartFillKeyed ==
    /\ pc = "start_fill"
    /\ \E r \in {start_fill_loop_keyed(Self, 1, now)} :
          /\ Install(r.sim)
          /\ pc' = IF r.raised THEN "KeyError" ELSE "consume"
    /\ UNCHANGED <<cfgvars, day_index, now, total_processed_today,
                   true_opening_stock, certified_stock>>

SelectionSpec == SelectionInit /\ [][MaybeStartFillKeyed]_vars

\* ------------------------- PROPERTIES -------------------------
feeding_tanks == {i \in all_tank_ids : state[i] = FEEDING}

logged(event) == \E k \in 1..Len(daily_log_rows) : daily_log_rows[k].Event = event

Abs(x) == IF x < 0 THEN -x ELSE x

\* The states tank i went through, in the order they were recorded: its
\* initial state, then the new state of each history entry that names it.
RECURSIVE states_recorded(_, _, _)
states_recorded(history, k, i) ==
    IF k > Len(history) THEN <<>>
    ELSE (IF history[k][2] = i THEN <<history[k][3]>> ELSE <<>>)
             \o states_recorded(history, k + 1, i)

tank_lifecycle(i) == <<initial_state[i]>> \o states_recorded(state_history, 1, i)

allowed_edges ==
    {<<READY, FEEDING>>, <<FEEDING, EMPTY>>,
     <<EMPTY, FILLING>>, <<SUSPENDED, FILLING>>, <<IDLE, FILLING>>,
     <<FILLING, SUSPENDED>>, <<FILLING, FILLED>>, <<FILLED, SETTLING>>,
     <<SETTLING, LAB>>, <<SETTLING, READY>>, <<LAB, READY>>}

\* Every history entry from the k-th on takes its tank along an allowed
\* edge, never into IDLE, and into FILLING only from EMPTY, SUSPENDED or
\* IDLE; states are the tanks' states before the k-th entry.
RECURSIVE edges_followed(_, _, _)
edges_followed(history, k, states) ==
    IF k > Len(history) THEN TRUE
    ELSE /\ <<states[history[k][2]], history[k][3]>> \in allowed_edges
         /\ history[k][3] # IDLE
         /\ history[k][3] = FILLING => states[history[k][2]] \in {EMPTY, SUSPENDED, IDLE}
         /\ edges_followed(history, k + 1, [states EXCEPT ![history[k][2]] = history[k][3]])

\* The history new extends the history old by at least one entry.
extends(old, new) == Len(new) > Len(old) /\ SubSeq(new, 1, Len(old)) = old

\* The entries of new after those of old all have a time later than T.
appended_later(old, new, T) == \A k \in (Len(old) + 1)..Len(new) : new[k][1] > T

\* The replay the reconstruction is specified by: every entry whose time is
\* at most ts is applied, in append order, and none is skipped.
RECURSIVE replay_all_until(_, _, _, _)
replay_all_until(history, k, ts, states) ==
    IF k > Len(history) THEN states
    ELSE replay_all_until(history, k + 1, ts,
             IF history[k][1] <= ts /\ history[k][2] \in DOMAIN states
             THEN [states EXCEPT ![history[k][2]] = history[k][3]]
             ELSE states)

\* The times at which the reconstruction is probed: the start, the clock,
\* and the time of every history entry.
probe_times(history, t) == {0, t} \cup {history[k][1] : k \in 1..Len(history)}

\* The index of the last history entry that names tank i (0: none).
last_entry_of(i) ==
    IF \E k \in 1..Len(state_history) : state_history[k][2] = i
    THEN CHOOSE k \in 1..Len(state_history) :
             /\ state_history[k][2] = i
             /\ \A j \in (k + 1)..Len(state_history) : state_history[j][2] # i
    ELSE 0

\* C1: after any sequence of simulation phases (initialization, promotion,
\* fill completion, feed assignment, fill start, consumption with
\* changeover) at most one tank is in state FEEDING.
C1_AtMostOneFeeding == Cardinality(feeding_tanks) <= 1

\* A changeover has happened and a feed was assigned: one tank is FEEDING
\* while another tank is READY.
C1_Witness ==
    /\ logged("FEED_CHANGEOVER")
    /\ Cardinality(feeding_tanks) = 1
    /\ \E j \in all_tank_ids : state[j] = READY

\* C2: for every tank, in every reachable state from construction on, the
\* stored usable volume is between 0 and the usable capacity.
C2_VolumeWithinCapacity == \A i \in all_tank_ids : 0 <= bbl[i] /\ bbl[i] <= usable

\* C3: every state change recorded in the history follows an allowed edge of
\* the lifecycle; no tank enters IDLE after initialization and no fill
\* starts on a tank that is not EMPTY, SUSPENDED or IDLE.
C3_LifecycleEdges == edges_followed(state_history, 1, initial_state)

\* A tank was partly filled, suspended, filled again to the top, settled,
\* became READY and feeds.
C3_Witness ==
    \E i \in all_tank_ids :
        /\ state[i] = FEEDING
        /\ \E k \in 1..(Len(tank_lifecycle(i)) - 1) :
               tank_lifecycle(i)[k] = SUSPENDED /\ tank_lifecycle(i)[k + 1] = FILLING

\* C4: for every tank, at all times, the per-crude volumes of the tank's
\* crude composition map sum to the tank's usable volume within tolerance.
C4_MixSumsToVolume ==
    \A i \in all_tank_ids : Abs(SumOver(tank_mix[i], Crudes) - bbl[i]) <= epsilon

\* C5: the state history is chronologically ordered: every appended entry
\* has a timestamp greater than or equal to that of the entry before it.
C5_HistoryChronological ==
    \A k \in 2..Len(state_history) : state_history[k - 1][1] <= state_history[k][1]

\* C6: for every time T the state-at-time reconstruction returns the states
\* obtained by applying onto the initial states every history entry whose
\* timestamp is at most T, in append order, skipping none.
C6_ReconstructionComplete ==
    \A T \in probe_times(state_history, now) :
        get_state_at_time(Self, T) = replay_all_until(state_history, 1, T, initial_state)

\* C7: state reconstruction is prefix-stable: when a step appends to the
\* history only entries with timestamps later than T, the reconstruction at
\* T from the longer history equals the reconstruction at T from the
\* history before the step.
C7_PrefixStable ==
    [][extends(state_history, state_history') =>
          \A T \in probe_times(state_history', now') :
              appended_later(state_history, state_history', T)
              => replay_history(state_history', 1, T, initial_state')
                   = replay_history(state_history, 1, T, initial_state)]_vars

\* The history ends with an entry later than an earlier entry's time T, and
\* the states reconstructed at T differ from the current ones: the later
\* entries are left out of the reconstruction at T.
C7_Witness ==
    \E k \in 1..(Len(state_history) - 1) :
        /\ \A j \in (k + 1)..Len(state_history) : state_history[j][1] > state_history[k][1]
        /\ get_state_at_time(Self, state_history[k][1]) # state
        /\ get_state_at_time(Self, state_history[k][1])
             = replay_history(SubSeq(state_history, 1, k), 1, state_history[k][1], initial_state)

\* C8: at the start and at the end of every simulated day the certified
\* stock (READY and FEEDING tanks) is at most the total stock (all tanks),
\* so the reported uncertified stock is never negative.
C8_CertifiedWithinTotal ==
    /\ certified_stock <= true_opening_stock
    /\ Len(inventory_data) = Len(daily_summary_rows)
    /\ \A k \in 1..Len(daily_summary_rows) :
           /\ daily_summary_rows[k].cert_stk <= daily_summary_rows[k].OpeningStock
           /\ daily_summary_rows[k].uncert_stk >= 0
           /\ inventory_data[k][2] <= daily_summary_rows[k].ClosingStock

\* A day has ended whose opening stock was partly certified and partly
\* uncertified, and so was its closing stock.
C8_Witness ==
    \E k \in 1..Len(daily_summary_rows) :
        /\ daily_summary_rows[k].cert_stk > 0
        /\ daily_summary_rows[k].uncert_stk > 0
        /\ inventory_data[k][2] > 0
        /\ inventory_data[k][2] < daily_summary_rows[k].ClosingStock

\* C9: for every tank, daily_consumption grows by exactly the decrease of
\* the tank's volume in every step of a day, and the day's processed volume
\* is the sum of daily_consumption over all tanks.
C9_ConsumptionMatchesDrain ==
    [][/\ \A i \in all_tank_ids :
              bbl'[i] < bbl[i] => daily_consumption'[i] - daily_consumption[i] = bbl[i] - bbl'[i]
       /\ total_processed_today' = SumOver(daily_consumption', all_tank_ids)]_vars

\* C10: a tank that fed from volume V at hourly rate r and is EMPTY was
\* recorded EMPTY at exactly its feed start + V/r, and TANK_EMPTY was logged
\* for it at that timestamp.
C10_EmptyAtExactTime ==
    \A i \in all_tank_ids :
        (state[i] = EMPTY /\ tank_feed_start_time[i] # None /\ last_entry_of(i) # 0) =>
            /\ state_history[last_entry_of(i)][1]
                 = tank_feed_start_time[i] + time_to_empty_min(feed_start_volume[i])
            /\ \E k \in 1..Len(daily_log_rows) :
                   /\ daily_log_rows[k].Event = "TANK_EMPTY"
                   /\ daily_log_rows[k].Tank = i
                   /\ daily_log_rows[k].Timestamp = state_history[last_entry_of(i)][1]

\* The fills of the active list that _maybe_finish_fill(t) completes.
completed_fills(fills, t) == {k \in 1..Len(fills) : t >= fills[k].end_time}

\* The step is a call of _maybe_finish_fill.
finishing_fills == pc \in {"finish_fill", "finish_fill_after"}

\* The step appended the entry just after the entry before.
appended_pair(old, new, before, entry) ==
    \E k \in (Len(old) + 1)..(Len(new) - 1) : new[k] = before /\ new[k + 1] = entry

appended_entry(old, new, entry) ==
    \E k \in (Len(old) + 1)..Len(new) : new[k] = entry

\* The volume of tank i after a fill of volume v completes.
volume_after_fill(i, v) == Min2(bbl[i] + v, usable)

\* The gross volume is within 100 bbl of the full gross capacity.
within_full_tolerance(v) == v + unusable_per_tank >= (usable + unusable_per_tank) - 100

\* The effect a completed full fill f must have.
full_fill_effect(f) ==
    /\ appended_pair(state_history, state_history',
                     <<f.end_time, f.tid, FILLED>>, <<f.end_time, f.tid, SETTLING>>)
    /\ state'[f.tid] = SETTLING
    /\ settle_end_at'[f.tid] = f.end_time + Hours(settle_hours)
    /\ ready_at'[f.tid] = f.end_time + Hours(settle_hours) + Hours(lab_hours)

\* The effect a completed partial fill f must have.
partial_fill_effect(f) ==
    /\ appended_entry(state_history, state_history', <<f.end_time, f.tid, SUSPENDED>>)
    /\ ~appended_entry(state_history, state_history', <<f.end_time, f.tid, FILLED>>)
    /\ ready_for_fill_at'[f.tid] = f.end_time + Hours(tank_fill_gap_hours)
    /\ settle_end_at'[f.tid] = None
    /\ lab_start_at'[f.tid] = None
    /\ ready_at'[f.tid] = None

fill_completion_effect(f) ==
    /\ bbl'[f.tid] = volume_after_fill(f.tid, f.volume)
    /\ IF within_full_tolerance(volume_after_fill(f.tid, f.volume))
       THEN full_fill_effect(f)
       ELSE partial_fill_effect(f)

\* C11: when a fill completes the tank's volume becomes min(previous volume
\* + filled volume, usable); a tank within 100 bbl of the full gross capacity
\* goes FILLING -> FILLED -> SETTLING at the fill's end with settle end =
\* fill end + settling hours and ready-at = fill end + settling + lab hours;
\* any other tank goes FILLING -> SUSPENDED with ready-for-fill-at = fill end
\* + tank-fill gap and no settle, lab or ready timer armed.
C11_FillCompletion ==
    [][finishing_fills =>
          \A k \in completed_fills(active_fills, now) :
              fill_completion_effect(active_fills[k])]_vars

\* A full fill and a partial fill have completed: one tank settles with its
\* timers armed after a lab hold, another is SUSPENDED with a partial volume.
C11_Witness ==
    /\ lab_hours > 0
    /\ \E i \in all_tank_ids :
          state[i] = SETTLING /\ settle_end_at[i] # None /\ bbl[i] = usable
            /\ ready_at[i] = settle_end_at[i] + Hours(lab_hours)
    /\ \E j \in all_tank_ids :
          state[j] = SUSPENDED /\ bbl[j] > 0 /\ bbl[j] < usable /\ ready_at[j] = None

\* The duration in minutes of a fill of volume v at the discharge rate.
fill_minutes(v) == (v * MinutesPerHour) \div discharge_rate

\* Tank j can take a fill at time t.
tank_eligible_at(j, t) == state[j] \in {EMPTY, SUSPENDED, IDLE} /\ t >= ready_for_fill_at[j]

\* The volume the cargo of fill f has left when f completes.
remaining_after(f) == cargo_remaining_volume[f.vessel_name] - f.volume

\* After the step the cargo of f is filling a tank from the end of f on,
\* with the volume min(remaining, usable).
next_fill_started(f) ==
    \E m \in 1..Len(active_fills') :
        /\ active_fills'[m].vessel_name = f.vessel_name
        /\ active_fills'[m].start_time = f.end_time
        /\ active_fills'[m].volume = Min2(remaining_after(f), usable)
        /\ active_fills'[m].end_time = f.end_time + fill_minutes(Min2(remaining_after(f), usable))
        /\ state'[active_fills'[m].tid] = FILLING

\* C12: a fill of volume v ends exactly v / discharge-rate hours after it
\* starts; when a fill completes, its cargo has more than epsilon left, the
\* tank-fill gap is 0 and another eligible tank exists, the cargo's next
\* fill starts at exactly the completed fill's end time with the volume
\* min(cargo remaining, usable).
C12_FillDurationAndContinuation ==
    [][/\ \A m \in 1..Len(active_fills') :
              active_fills'[m].end_time
                  = active_fills'[m].start_time + fill_minutes(active_fills'[m].volume)
       /\ finishing_fills =>
              \A k \in completed_fills(active_fills, now) :
                  (/\ remaining_after(active_fills[k]) > epsilon
                   /\ tank_fill_gap_hours = 0
                   /\ \E j \in all_tank_ids \ {active_fills[k].tid} :
                          tank_eligible_at(j, active_fills[k].end_time))
                  => next_fill_started(active_fills[k])]_vars

\* A cargo of 720 bbl filled a first tank with 480 bbl and is filling a
\* second tank with the remaining 240 bbl from the first fill's end on.
C12_Witness ==
    \E m \in 1..Len(active_fills) : \E k \in 1..Len(cargos) :
        /\ cargos[k].vessel_name = active_fills[m].vessel_name
        /\ Len(cargos[k].tank_fills) = 1
        /\ cargos[k].tank_fills[1][3] = active_fills[m].start_time
        /\ cargos[k].tank_fills[1][4] = usable
        /\ active_fills[m].volume = vlcc_volume - usable
        /\ active_fills[m].end_time = active_fills[m].start_time + fill_minutes(vlcc_volume - usable)

\* Another cargo than that of f starts a fill of tank j in the step.
taken_by_other_cargo(j, f) ==
    \E m \in 1..Len(active_fills') :
        /\ active_fills'[m].tid = j
        /\ active_fills'[m].vessel_name # f.vessel_name
        /\ \A n \in 1..Len(active_fills) : active_fills[n] # active_fills'[m]

\* C12 amended: a fill of volume v ends exactly v / discharge-rate hours
\* after it starts; when a fill completes, its cargo has more than epsilon
\* left, the tank-fill gap is 0 and another eligible tank exists that no
\* other cargo starts filling in the same fill-completion pass, the cargo's
\* next fill starts at exactly the completed fill's end time with the volume
\* min(cargo remaining, usable).
C12_ContinuationUnlessTaken ==
    [][/\ \A m \in 1..Len(active_fills') :
              active_fills'[m].end_time
                  = active_fills'[m].start_time + fill_minutes(active_fills'[m].volume)
       /\ finishing_fills =>
              \A k \in completed_fills(active_fills, now) :
                  (/\ remaining_after(active_fills[k]) > epsilon
                   /\ tank_fill_gap_hours = 0
                   /\ \E j \in all_tank_ids \ {active_fills[k].tid} :
                          /\ tank_eligible_at(j, active_fills[k].end_time)
                          /\ ~taken_by_other_cargo(j, active_fills[k]))
                  => next_fill_started(active_fills[k])]_vars

\* The index of the history entry of the same tank before entry k (0: none).
previous_entry(history, k) ==
    IF \E j \in 1..(k - 1) : history[j][2] = history[k][2]
    THEN CHOOSE j \in 1..(k - 1) :
             /\ history[j][2] = history[k][2]
             /\ \A m \in (j + 1)..(k - 1) : history[m][2] # history[k][2]
    ELSE 0

\* Entry k follows, for its tank, an entry of state st recorded exactly
\* delay minutes before it.
follows_after(history, k, st, delay) ==
    /\ previous_entry(history, k) # 0
    /\ history[previous_entry(history, k)][3] = st
    /\ history[k][1] = history[previous_entry(history, k)][1] + delay

\* The number of promotions to READY recorded for tank i.
promotions_of(i) ==
    Cardinality({k \in 1..Len(state_history) :
                    state_history[k][2] = i /\ state_history[k][3] = READY})

\* C13: with lab hold = 0 a tank that entered SETTLING at T is recorded READY
\* at exactly T + settling hours; with lab hold > 0 it is recorded LAB at
\* T + settling hours and READY at T + settling + lab hours; each promotion
\* to READY increments the tank's cycle counter by exactly 1 and the counter
\* changes at no other time.
C13_PromotionTimes ==
    /\ \A k \in 1..Len(state_history) :
          /\ state_history[k][3] = READY =>
                IF lab_hours > 0
                THEN follows_after(state_history, k, LAB, Hours(lab_hours))
                ELSE follows_after(state_history, k, SETTLING, Hours(settle_hours))
          /\ state_history[k][3] = LAB =>
                lab_hours > 0 /\ follows_after(state_history, k, SETTLING, Hours(settle_hours))
    /\ \A i \in all_tank_ids : tank_cycle_counter[i] = 1 + promotions_of(i)

\* With no lab hold a tank was filled, settled and promoted to READY: its
\* cycle counter is 2.
C13_Witness ==
    /\ lab_hours = 0
    /\ \E i \in all_tank_ids :
          /\ tank_cycle_counter[i] = 2
          /\ promotions_of(i) = 1
          /\ state[i] \in {READY, FEEDING}

\* C15: in every reachable state, a berth that has a current cargo holds it
\* at or after the cargo's arrival time and before the cargo is fully
\* discharged: no berth is held by a cargo whose arrival is in the future.
C15_BerthHeldAfterArrival ==
    \A b \in BerthIds :
        berths[b].current_cargo # NoCargo =>
            /\ now >= cargos[berths[b].current_cargo].arrival
            /\ cargo_remaining_volume[cargos[berths[b].current_cargo].vessel_name] > epsilon

\* The step lowers the remaining volume of vessel v only by the volume of a
\* fill of v that completes in it.
lowered_by_completed_fill(v) ==
    /\ finishing_fills
    /\ \E m \in completed_fills(active_fills, now) :
           /\ active_fills[m].vessel_name = v
           /\ cargo_remaining_volume[v] - cargo_remaining_volume'[v] = active_fills[m].volume

\* The step leaves the discharged cargo k as it is and starts no fill for it.
cargo_frozen(k) ==
    /\ cargo_remaining_volume'[cargos[k].vessel_name] = cargo_remaining_volume[cargos[k].vessel_name]
    /\ cargos'[k].tank_fills = cargos[k].tank_fills
    /\ cargos'[k].discharge_start = cargos[k].discharge_start
    /\ cargos'[k].discharge_end = cargos[k].discharge_end
    /\ \A m \in 1..Len(active_fills') : active_fills'[m].vessel_name # cargos[k].vessel_name

\* C16: each cargo's remaining volume never increases and never drops below
\* 0; it decreases only when one of its fills completes, by exactly that
\* fill's volume; once it is at most epsilon the cargo starts no further fill
\* and its remaining volume, tank-fill list and discharge times never change.
C16_RemainingVolumeMonotone ==
    [][\A k \in 1..Len(cargos) :
          /\ cargo_remaining_volume'[cargos[k].vessel_name]
                 <= cargo_remaining_volume[cargos[k].vessel_name]
          /\ cargo_remaining_volume'[cargos[k].vessel_name] >= 0
          /\ cargo_remaining_volume'[cargos[k].vessel_name]
                 < cargo_remaining_volume[cargos[k].vessel_name]
                 => lowered_by_completed_fill(cargos[k].vessel_name)
          /\ cargo_remaining_volume[cargos[k].vessel_name] <= epsilon => cargo_frozen(k)]_vars

\* A cargo was discharged by two fills, and the run went on for a step or
\* more after its discharge end while tanks were free to be filled.
C16_Witness ==
    \E k \in 1..Len(cargos) :
        /\ cargo_remaining_volume[cargos[k].vessel_name] = 0
        /\ Len(cargos[k].tank_fills) = 2
        /\ cargos[k].discharge_end # None
        /\ now >= cargos[k].discharge_end + snapshot_interval_minutes
        /\ \E j \in all_tank_ids : state[j] = EMPTY /\ now >= ready_for_fill_at[j]

\* The active fill records that name tank i.
records_of_tank(i) == {m \in 1..Len(active_fills) : active_fills[m].tid = i}

\* The active fill records of vessel v.
records_of_vessel(v) == {m \in 1..Len(active_fills) : active_fills[m].vessel_name = v}

\* C17: between the phases a tank is FILLING if and only if exactly one
\* active fill record names it; each cargo has at most one record and no two
\* records name the same tank (so the record goes in the operation that
\* moves the tank out of FILLING).
C17_ActiveFillIffFilling ==
    /\ \A i \in all_tank_ids :
          /\ state[i] = FILLING <=> Cardinality(records_of_tank(i)) = 1
          /\ Cardinality(records_of_tank(i)) <= 1
    /\ \A k \in 1..Len(cargos) : Cardinality(records_of_vessel(cargos[k].vessel_name)) <= 1
    /\ \A m \in 1..Len(active_fills) :
          \E k \in 1..Len(cargos) : cargos[k].vessel_name = active_fills[m].vessel_name

\* Two cargos fill two tanks at the same time, after an earlier fill has
\* completed: its tank went through SETTLING to READY and has no record.
C17_Witness ==
    /\ Len(active_fills) = 2
    /\ Cardinality({i \in all_tank_ids : state[i] = FILLING}) = 2
    /\ \E i \in all_tank_ids : tank_cycle_counter[i] = 2 /\ records_of_tank(i) = {}

halt_events == {"NO_FEED_AVAILABLE", "PROCESSING_HALT"}

\* The halt and resume rows of the event log, in append order.
halt_log(rows) ==
    SelectSeq(rows, LAMBDA row : row.Event \in halt_events \cup {"PROCESSING_RESUME"})

\* Halt rows and resume rows alternate, starting with a halt row.
halts_alternate(rows) ==
    \A k \in 1..Len(halt_log(rows)) :
        IF k % 2 = 1 THEN halt_log(rows)[k].Event \in halt_events
        ELSE halt_log(rows)[k].Event = "PROCESSING_RESUME"

\* Every resume row is directly followed by the feed-start row of the tank
\* that takes over, at the same timestamp.
resume_before_feed_start(rows) ==
    \A k \in 1..Len(rows) :
        rows[k].Event = "PROCESSING_RESUME" =>
            /\ k < Len(rows)
            /\ rows[k + 1].Event \in {"FEED_START", "FEED_CHANGEOVER"}
            /\ rows[k + 1].Tank # NoTank
            /\ rows[k + 1].Timestamp = rows[k].Timestamp

\* The run is halted: the last halt or resume row is a halt row.
halted(rows) == Len(halt_log(rows)) % 2 = 1

halt_logging_ok ==
    /\ halts_alternate(daily_log_rows)
    /\ resume_before_feed_start(daily_log_rows)
    /\ halted(daily_log_rows) <=> no_feed_alert_logged
    /\ halted(daily_log_rows) => feeding_tanks = {}

\* C18: when no READY tank is available for feeding, exactly one halt event
\* (NO_FEED_AVAILABLE or PROCESSING_HALT) is logged per halt episode and none
\* until feeding has resumed; consumption processes nothing while halted;
\* when feeding restarts, PROCESSING_RESUME is logged before the tank's
\* feed-start event.
C18_HaltLoggedOnce ==
    [][/\ halt_logging_ok'
       /\ (pc = "ensure_feeding" /\ feeding_tanks' = {}) => halted(daily_log_rows')
       /\ (pc = "consume" /\ feeding_tanks # {} /\ feeding_tanks' = {} /\ pc' # "day_end"
              /\ \A k \in (Len(daily_log_rows) + 1)..Len(daily_log_rows') :
                     daily_log_rows'[k].Event # "FEED_ERROR")
             => halted(daily_log_rows')
       /\ (pc = "consume" /\ halted(daily_log_rows)) =>
              /\ total_processed_today' = total_processed_today
              /\ bbl' = bbl
              /\ halted(daily_log_rows')]_vars

\* The run halted twice and resumed twice: four halt and resume rows, and a
\* tank is feeding again.
C18_Witness ==
    /\ Len(halt_log(daily_log_rows)) >= 4
    /\ feeding_tanks # {}
    /\ \E k \in 1..Len(daily_log_rows) : daily_log_rows[k].Event = "PROCESSING_HALT"
    /\ \E k \in 1..Len(daily_log_rows) : daily_log_rows[k].Event = "NO_FEED_AVAILABLE"

\* The consumption step is about to meet a FEEDING active tank without volume.
feeding_without_volume ==
    /\ pc = "consume"
    /\ now < step_end_of(day_index, now, snapshot_interval_minutes)
    /\ active # 0
    /\ state[active] = FEEDING
    /\ bbl[active] <= 0

\* The feed rows of the event log, in append order.
feed_log(rows) ==
    SelectSeq(rows, LAMBDA row : row.Event \in {"FEED_START", "FEED_CHANGEOVER", "FEED_ERROR"})

\* The last feed row of the log reports a feed error.
after_feed_error(rows) ==
    /\ Len(feed_log(rows)) > 0
    /\ feed_log(rows)[Len(feed_log(rows))].Event = "FEED_ERROR"

\* The fields of every tank but tank a are left as they are.
other_tanks_unchanged(a) ==
    \A j \in all_tank_ids \ {a} :
        /\ state'[j] = state[j]
        /\ bbl'[j] = bbl[j]
        /\ ready_for_fill_at'[j] = ready_for_fill_at[j]
        /\ ready_at'[j] = ready_at[j]
        /\ settle_end_at'[j] = settle_end_at[j]
        /\ tank_cycle_counter'[j] = tank_cycle_counter[j]
        /\ daily_consumption'[j] = daily_consumption[j]

feed_error_effect ==
    /\ state'[active] = EMPTY
    /\ state_history' = Append(state_history, <<now, active, EMPTY>>)
    /\ Len(daily_log_rows') = Len(daily_log_rows) + 1
    /\ SubSeq(daily_log_rows', 1, Len(daily_log_rows)) = daily_log_rows
    /\ daily_log_rows'[Len(daily_log_rows')].Event = "FEED_ERROR"
    /\ daily_log_rows'[Len(daily_log_rows')].Tank = active
    /\ daily_log_rows'[Len(daily_log_rows')].Timestamp = now
    /\ ready_for_fill_at'[active] = now + Hours(tank_gap_hours)
    /\ total_processed_today' = total_processed_today
    /\ bbl' = bbl
    /\ daily_consumption' = daily_consumption
    /\ other_tanks_unchanged(active)
    /\ active_fills' = active_fills
    /\ cargos' = cargos
    /\ pc' = "finish_fill_after"

\* The feed assignment that follows a feed error: a READY tank, if there is
\* one, starts feeding; the run goes on to the fill executor.
feed_reassigned ==
    /\ pc' = "start_fill"
    /\ (\E j \in all_tank_ids : state[j] = READY) =>
           /\ active' # active
           /\ state[active'] = READY
           /\ feeding_tanks' = {active'}
           /\ daily_log_rows'[Len(daily_log_rows')].Event = "FEED_START"
           /\ daily_log_rows'[Len(daily_log_rows')].Tank = active'

\* C19: a FEEDING active tank with volume <= 0 at consumption time is forced
\* to EMPTY, a FEED_ERROR row is logged, its ready-for-fill-at becomes now
\* plus the tank gap, nothing is processed in the step, the other tanks are
\* unchanged, and the next feed assignment selects a READY tank.
C19_FeedErrorRecovery ==
    [][/\ feeding_without_volume => feed_error_effect
       /\ (pc = "ensure_feeding" /\ after_feed_error(daily_log_rows)) => feed_reassigned]_vars

\* A feed error was logged and a READY tank took over at the next feed
\* assignment.
C19_Witness ==
    \E k \in 2..Len(feed_log(daily_log_rows)) :
        /\ feed_log(daily_log_rows)[k - 1].Event = "FEED_ERROR"
        /\ feed_log(daily_log_rows)[k].Event = "FEED_START"
        /\ feed_log(daily_log_rows)[k].Tank # feed_log(daily_log_rows)[k - 1].Tank
        /\ state[feed_log(daily_log_rows)[k].Tank] = FEEDING

\* The cargos that were given the berth: with a solver plan the dispatched
\* ones of the preloaded list, otherwise every cargo of the list.
cargos_at_berth(b) ==
    {k \in 1..Len(cargos) : cargos[k].berth = b /\ (use_solver_plan => cargos[k].dispatched)}

\* The timestamp the operator gave for the berth, the simulation start when
\* it is missing or cannot be parsed.
operator_arrival(b) ==
    IF cfg_manual_arrival[b][1] = "valid" THEN cfg_manual_arrival[b][2] ELSE 0

\* C20: in manual scheduling mode the first cargo at each berth arrives at the
\* operator's timestamp for that berth, at the simulation start when the
\* timestamp is missing or unparseable, whether or not a solver plan is
\* loaded.
C20_ManualFirstArrival ==
    scheduling_mode = "manual" =>
        \A b \in BerthIds :
            /\ manual_arrival[b] = operator_arrival(b)
            /\ cargos_at_berth(b) # {} =>
                   cargos[MinOf(cargos_at_berth(b))].arrival = operator_arrival(b)

\* The cargos that hold berth b: given the berth and not yet discharged.
occupants(b) ==
    {k \in cargos_at_berth(b) : cargo_remaining_volume[cargos[k].vessel_name] > epsilon}

\* Only the berth's current cargo holds the berth.
single_occupant == \A b \in BerthIds : occupants(b) \subseteq {berths[b].current_cargo}

\* The berth's current cargo is replaced only once it is discharged.
holder_kept(b) ==
    (berths[b].current_cargo # NoCargo /\ berths'[b].current_cargo # berths[b].current_cargo)
        => cargo_remaining_volume'[cargos[berths[b].current_cargo].vessel_name] <= epsilon

\* The k-th cargo is discharged in this step.
discharged_now(k) ==
    /\ cargo_remaining_volume[cargos[k].vessel_name] > epsilon
    /\ cargo_remaining_volume'[cargos[k].vessel_name] <= epsilon

\* The berth of the k-th cargo is released at the cargo's discharge end, and
\* the scheduling pass at that time has run: without a solver plan it puts a
\* new cargo on the berth when enough tanks are READY.
berth_released(k) ==
    /\ berths'[cargos[k].berth].current_cargo # k
    /\ cargos'[k].discharge_end # None
    /\ berths'[cargos[k].berth].free_at = cargos'[k].discharge_end
    /\ (~use_solver_plan /\ Cardinality({i \in all_tank_ids : state'[i] = READY}) >= min_ready_tanks)
           => berths'[cargos[k].berth].current_cargo > Len(cargos)

\* C14: in every scheduling mode a berth holds at most one cargo at a time:
\* a berth whose current cargo has more than epsilon left is not given another
\* cargo; when the remaining volume reaches epsilon or less the berth is
\* cleared, its free-at is the cargo's discharge end and cargo scheduling runs
\* again at that time.
C14_BerthHoldsOneCargo ==
    [][/\ single_occupant'
       /\ \A b \in BerthIds : holder_kept(b)
       /\ \A k \in 1..Len(cargos) : discharged_now(k) => berth_released(k)]_vars

\* With a solver plan: the first cargo of berth 1 is discharged, the berth was
\* free at its discharge end and now holds the next cargo planned for it.
C14_Witness ==
    /\ use_solver_plan
    /\ Len(cargos) >= 3
    /\ cargo_remaining_volume[cargos[1].vessel_name] <= epsilon
    /\ berths[1].free_at = cargos[1].discharge_end
    /\ berths[1].current_cargo = 3
    /\ berths[2].current_cargo = 2

\* One summary row per simulated day so far, dated with the day's start.
one_row_per_day ==
    /\ Len(daily_summary_rows) = day_index
    /\ \A d \in 1..Len(daily_summary_rows) : daily_summary_rows[d].Date = day_start_of(d - 1)

\* The run has ended at its horizon: every day was simulated and the clock
\* stands at start + horizon.
run_complete ==
    /\ pc = "done"
    /\ day_index = max_days
    /\ now = simulation_end_dt
    /\ one_row_per_day

\* The clock moves forward, by at most the snapshot interval, and not
\* beyond the horizon.
clock_step ==
    /\ now' >= now
    /\ now' - now <= snapshot_interval_minutes
    /\ now' <= simulation_end_dt

\* C21: a run always terminates at its configured horizon: the clock advances
\* in steps no longer than the snapshot interval, never moves backwards and
\* never passes start + horizon, every simulated day yields exactly one
\* daily-summary row, and the run is never marked infeasible.
C21_RunsToHorizon ==
    /\ <>run_complete
    /\ [][clock_step /\ one_row_per_day' /\ ~infeasible'
            /\ (pc' = "done" => run_complete')]_vars

\* The run is over: both days were simulated, with cargo fills on the way.
C21_Witness ==
    /\ run_complete
    /\ Len(daily_summary_rows) = max_days
    /\ ~infeasible
    /\ Len(cargos) > 0

\* ---------------------------------------------------------------------
\* C22: the vessel-combination search
\* ---------------------------------------------------------------------
\* every combination the nested loops visit
AllCombinations ==
    {<<a, b, c, d, e, f, g>> :
        a \in {multiplier_lists[1][i] : i \in 1..Len(multiplier_lists[1])},
        b \in {multiplier_lists[2][i] : i \in 1..Len(multiplier_lists[2])},
        c \in {multiplier_lists[3][i] : i \in 1..Len(multiplier_lists[3])},
        d \in {multiplier_lists[4][i] : i \in 1..Len(multiplier_lists[4])},
        e \in {multiplier_lists[5][i] : i \in 1..Len(multiplier_lists[5])},
        f \in {multiplier_lists[6][i] : i \in 1..Len(multiplier_lists[6])},
        g \in {multiplier_lists[7][i] : i \in 1..Len(multiplier_lists[7])}}

\* the configured classes a combination uses
used_classes(vessels, combination) ==
    {c \in 1..Len(VesselTypes) : VesselTypes[c] \in DOMAIN vessels /\ combination[c] > 0}

used_volume(vessels, combination) ==
    SumOver([c \in used_classes(vessels, combination) |->
                vessels[VesselTypes[c]] * combination[c]],
            used_classes(vessels, combination))

\* the k-th used class, in class order, carries the k-th crude
class_rank(vessels, combination, c) ==
    Cardinality({d \in used_classes(vessels, combination) : d <= c})

ratio_distance(vessels, combination, crude_ratios) ==
    SumOver([c \in used_classes(vessels, combination) |->
                abs(ratio_of(vessels[VesselTypes[c]] * combination[c],
                             used_volume(vessels, combination))
                    - crude_ratios[class_rank(vessels, combination, c)])],
            used_classes(vessels, combination))

qualifies(vessels, crude_ratios, combination) ==
    /\ Cardinality(used_classes(vessels, combination)) = Len(crude_ratios)
    /\ ratio_distance(vessels, combination, crude_ratios) >= 1

\* c comes before d in the loops' order
visited_before(c, d) ==
    \E i \in 1..Len(VesselTypes) : c[i] < d[i] /\ \A j \in 1..(i - 1) : c[j] = d[j]

first_best(vessels, crude_ratios, combination) ==
    /\ qualifies(vessels, crude_ratios, combination)
    /\ \A d \in AllCombinations :
          qualifies(vessels, crude_ratios, d) =>
             \/ ratio_distance(vessels, combination, crude_ratios)
                   < ratio_distance(vessels, d, crude_ratios)
             \/ /\ ratio_distance(vessels, combination, crude_ratios)
                      = ratio_distance(vessels, d, crude_ratios)
                /\ (combination = d \/ visited_before(combination, d))

search_is_right(vessels, crude_ratios, pattern) ==
    IF pattern.found
    THEN /\ pattern.combination \in AllCombinations
         /\ pattern.deviation = ratio_distance(vessels, pattern.combination, crude_ratios)
         /\ pattern.deviation >= 1
         /\ first_best(vessels, crude_ratios, pattern.combination)
    ELSE \A d \in AllCombinations : ~qualifies(vessels, crude_ratios, d)



targets_adjusted == optimizer.stage = "iterate" /\ optimizer'.stage = "iterate"

overshot(o, i) == o.current_actual_ratios[i] > base_ratios_of(o.crude_mix)[i]

\* C23: whenever a pass's actual ratio of a crude exceeds the crude's
\* required ratio, the target ratio the next pass uses for the crude is
\* strictly below the target the pass itself used.
C23_OvershootLowersTarget ==
    [][targets_adjusted =>
          \A i \in 1..Len(optimizer.crude_mix) :
             overshot(optimizer', i) =>
                optimizer'.current_target_ratios[i] < optimizer.current_target_ratios[i]]_vars

\* ---------------------------------------------------------------------
\* C24: the passes of the iterative optimizer and the schedule it returns
\* ---------------------------------------------------------------------
passes == optimizer.iterations_log

\* the loop stopped after pass k
stopped_at(k) == passes[k].max_deviation <= tolerance \/ k = max_iterations

\* pass k is the earliest pass of the lowest maximum deviation
earliest_best(k) ==
    /\ \A j \in 1..Len(passes) : passes[k].max_deviation <= passes[j].max_deviation
    /\ \A j \in 1..(k - 1) : passes[j].max_deviation > passes[k].max_deviation

unsolvable(params) ==
    \/ extract_crude_mix(params) = <<>>
    \/ percentages_off(extract_crude_mix(params))
    \/ DOMAIN extract_vessel_data(params) = {}
    \/ allocation_raises(params)

\* C25: for a missing crude mix, crude percentages that do not sum to 100 %,
\* no vessel class of positive capacity or an exception raised inside the
\* solver, the returned result has success = false, an error message and an
\* empty cargo schedule.
C25_StructuredFailure ==
    (optimizer.stage = "done" /\ unsolvable(optimizer.params)) =>
        /\ optimizer.result.success = FALSE
        /\ "error" \in DOMAIN optimizer.result
        /\ optimizer.result.error # ""
        /\ "cargo_schedule" \in DOMAIN optimizer.result
        /\ optimizer.result.cargo_schedule = <<>>

\* ---------------------------------------------------------------------
\* C26: the mass balance of the returned schedule
\* ---------------------------------------------------------------------
mass_balance_of_result == optimizer.result.mass_balance

\* C26: every cargo of the returned schedule is fully allocated: the volumes
\* the tank filling plan takes from it sum to the cargo's size, up to the
\* planning threshold of 100 bbl, and never to more than its size.
C26_FullyAllocated ==
    (optimizer.stage = "done" /\ optimizer.result.success) =>
        \A k \in 1..Len(mass_balance_of_result) :
            /\ mass_balance_of_result[k].allocated <= mass_balance_of_result[k].total_size
            /\ mass_balance_of_result[k].unallocated <= planning_threshold

\* ---------------------------------------------------------------------
\* C27: the order of the phases of a time step
\* ---------------------------------------------------------------------
\* the phase that follows phase p within a step of the loop of simulate_day
phase_order_kept ==
    /\ (pc = "promote") => (pc' = "finish_fill")
    /\ (pc = "finish_fill") => (pc' = "ensure_feeding")
    /\ (pc = "ensure_feeding") => (pc' = "start_fill")
    /\ (pc = "start_fill") => (pc' = "consume")
    /\ (pc = "consume") => (pc' \in {"finish_fill_after", "day_end"})

\* the fills that the step starts
started_fills ==
    {active_fills'[k] : k \in 1..Len(active_fills')}
        \ {active_fills[k] : k \in 1..Len(active_fills)}

\* the phases of a step that come before its feed assignment is done
before_feed_assignment == {"loop", "promote", "finish_fill", "ensure_feeding"}

\* C27: within every time step the phases run in the order promotion, fill
\* completion, feed assignment, fill start, consumption, and no fill is
\* started before the feed-assignment phase of the step has run.
C27_PhaseOrder ==
    [][/\ phase_order_kept
       /\ (started_fills # {}) => (pc \notin before_feed_assignment)]_vars

\* the end times of the fills that the fill-completion phase completes
completed_fill_ends ==
    {active_fills[k].end_time : k \in {j \in 1..Len(active_fills) : now >= active_fills[j].end_time}}

\* The phases run in the order promotion, fill completion, feed assignment,
\* fill start, consumption; a fill is started by the fill-start phase at the
\* time of the step, or inside a fill-completion phase (before feed
\* assignment or after consumption) at the end time of a fill it completes.
C27_PhaseOrderWithContinuation ==
    [][/\ phase_order_kept
       /\ (started_fills # {}) =>
             \/ /\ pc = "start_fill"
                /\ \A f \in started_fills : f.start_time = now
             \/ /\ pc \in {"finish_fill", "finish_fill_after"}
                /\ \A f \in started_fills : f.start_time \in completed_fill_ends]_vars

\* the fill-completion phase that opens a step has started a fill: feed
\* assignment is next, and an active fill has an end time that is past
C27_Witness ==
    /\ pc = "ensure_feeding"
    /\ \E k \in 1..Len(active_fills) : active_fills[k].end_time <= now

\* ---------------------------------------------------------------------
\* C28: the changeover when the feeding tank empties within a step
\* ---------------------------------------------------------------------
\* the consumption phase is about to drain the feeding tank to nothing
\* before the step's end
feeding_tank_empties ==
    /\ pc = "consume"
    /\ now < step_end_of(day_index, now, snapshot_interval_minutes)
    /\ active # 0
    /\ state[active] = FEEDING
    /\ bbl[active] > 0
    /\ bbl[active] * MinutesPerHour
          <= (step_end_of(day_index, now, snapshot_interval_minutes) - now) * rate_hour

\* the exact time at which the feeding tank is empty
empty_time == now + (bbl[active] * MinutesPerHour) \div rate_hour

\* the minutes of the step that are left at the empty time
minutes_left == step_end_of(day_index, now, snapshot_interval_minutes) - empty_time

ready_tank_ids == {i \in all_tank_ids : state[i] = READY}

\* the first READY tank in ascending id order after the feeding tank,
\* wrapping around to the lowest id; NoTank when no tank is READY
next_ready_in_cycle ==
    IF \E i \in ready_tank_ids : i > active
    THEN CHOOSE i \in ready_tank_ids :
            i > active /\ \A j \in ready_tank_ids : j > active => i <= j
    ELSE IF ready_tank_ids # {}
    THEN CHOOSE i \in ready_tank_ids : \A j \in ready_tank_ids : i <= j
    ELSE NoTank

\* the emptied tank after the step
emptied_tank_left_empty ==
    /\ state'[active] = EMPTY
    /\ bbl'[active] = 0
    /\ \A c \in Crudes : tank_mix'[active][c] = 0
    /\ ready_for_fill_at'[active] = empty_time + Hours(tank_gap_hours)
    /\ \E n \in (Len(state_history) + 1)..Len(state_history') :
          state_history'[n] = <<empty_time, active, EMPTY>>

\* the selected tank feeds from the empty time on
selected_tank_feeds ==
    /\ active' = next_ready_in_cycle
    /\ state'[next_ready_in_cycle] = FEEDING
    /\ tank_feed_start_time'[next_ready_in_cycle] = empty_time
    /\ state_history'[Len(state_history')] = <<empty_time, next_ready_in_cycle, FEEDING>>

clamped_draw ==
    Min2((rate_hour * minutes_left) \div MinutesPerHour,
         Min2(bbl[next_ready_in_cycle], usable))

fillable_now ==
    {i \in DOMAIN state : state[i] \in {EMPTY, SUSPENDED, IDLE} /\ now >= ready_for_fill_at[i]}

\* the tanks that started the simulation EMPTY and are still preferred
still_preferred == {initially_empty_tanks[k] : k \in 1..Len(initially_empty_tanks)}

\* the tank the statement selects: a preferred tank first, else the lowest id
tank_to_select ==
    IF fillable_now \cap still_preferred # {}
    THEN CHOOSE i \in fillable_now \cap still_preferred :
            \A j \in fillable_now \cap still_preferred : i <= j
    ELSE IF fillable_now # {}
    THEN CHOOSE i \in fillable_now : \A j \in fillable_now : i <= j
    ELSE NoTank

\* the first cargo is at its berth and waits for a tank
cargo_waits ==
    /\ pc = "start_fill"
    /\ Len(cargos) = 1
    /\ active_fills = <<>>
    /\ cargo_remaining_volume[cargos[1].vessel_name] > epsilon
    /\ now >= cargos[1].fill_start

\* C29: in standard mode the tank chosen for a new fill is the lowest-id
\* tank that is EMPTY, SUSPENDED or IDLE and past its gap timer, the tanks
\* that started EMPTY first and each of them preferred once; the selection
\* raises no error whatever the configured tank ids are, and the fill
\* volume is min(cargo remaining, usable capacity).
C29_StandardSelection ==
    [][cargo_waits =>
          /\ pc' # "KeyError"
          /\ (tank_to_select = NoTank) => (active_fills' = <<>>)
          /\ (tank_to_select # NoTank) =>
                /\ Len(active_fills') = 1
                /\ active_fills'[1].tid = tank_to_select
                /\ active_fills'[1].volume =
                      Min2(cargo_remaining_volume[cargos[1].vessel_name], usable)
                /\ state'[tank_to_select] = FILLING
                /\ \A k \in 1..Len(initially_empty_tanks') :
                      initially_empty_tanks'[k] # tank_to_select]_vars

\* the place of the tank's first visit in the master sequence; a tank the
\* sequence does not list comes after every listed one
master_position(tank_id) ==
    IF \E n \in 1..Len(solver_tank_sequence) : solver_tank_sequence[n] = <<tank_id, 0>>
    THEN MinOf({n \in 1..Len(solver_tank_sequence) : solver_tank_sequence[n] = <<tank_id, 0>>})
    ELSE Len(solver_tank_sequence) + 1

\* the assignments of the k-th cargo, as the plan lists them
planned_for(k) ==
    IF cargos[k].cargo_id \in DOMAIN cargo_to_tank_assignments
    THEN cargo_to_tank_assignments[cargos[k].cargo_id] ELSE <<>>

\* the assignments of the k-th cargo that can take a fill now: volume is
\* left in them, their tank is EMPTY, SUSPENDED or IDLE, past its gap timer
\* and below capacity
fillable_assignments(k) ==
    {n \in 1..Len(planned_for(k)) :
        /\ planned_for(k)[n].volume - planned_for(k)[n].filled > epsilon
        /\ state[planned_for(k)[n].tank_id] \in {EMPTY, SUSPENDED, IDLE}
        /\ now >= ready_for_fill_at[planned_for(k)[n].tank_id]
        /\ bbl[planned_for(k)[n].tank_id] < usable}

\* the first of them in the order of the master sequence
first_planned(k) ==
    CHOOSE n \in fillable_assignments(k) :
        \A m \in fillable_assignments(k) :
            \/ master_position(planned_for(k)[n].tank_id)
                   < master_position(planned_for(k)[m].tank_id)
            \/ /\ master_position(planned_for(k)[n].tank_id)
                      = master_position(planned_for(k)[m].tank_id)
               /\ n <= m

\* the k-th cargo has assignments and is the first cargo of the list that
\* may start a fill in the fill-start phase of this step
selects_by_plan(k) ==
    /\ pc = "start_fill"
    /\ use_solver_plan
    /\ planned_for(k) # <<>>
    /\ may_start_fill(Self, k, now)
    /\ \A j \in 1..(k - 1) : ~may_start_fill(Self, j, now)

\* the fills the step starts for the k-th cargo
fills_started_for(k) ==
    {f \in started_fills : f.vessel_name = cargos[k].vessel_name}

\* the fill of the assignment at position n of the k-th cargo
is_planned_fill(f, k, n) ==
    /\ f.tid = planned_for(k)[n].tank_id
    /\ f.volume = Min2(Min2(planned_for(k)[n].volume - planned_for(k)[n].filled,
                           cargo_remaining_volume[cargos[k].vessel_name]),
                      usable - bbl[planned_for(k)[n].tank_id])

\* C30: in solver mode the assignment chosen for a cargo's next fill is the
\* first one, in the order of the plan's master tank sequence, whose tank is
\* EMPTY, SUSPENDED or IDLE, past its fill-gap timer and below capacity; the
\* fill volume is min(assignment remaining, cargo remaining, tank free
\* space); a cargo that has assignments starts no fill when none of them
\* can be filled.
C30_PlannedChoice ==
    [][\A k \in 1..Len(cargos) :
          selects_by_plan(k) =>
              IF fillable_assignments(k) = {} THEN fills_started_for(k) = {}
              ELSE \E f \in fills_started_for(k) :
                       /\ fills_started_for(k) = {f}
                       /\ is_planned_fill(f, k, first_planned(k))]_vars

\* the cargo that discharges into the started fill f
cargo_of_fill(f) == CHOOSE k \in 1..Len(cargos') : cargos'[k].vessel_name = f.vessel_name

\* the places of the state changes of tank i in the history after the step
changes_of_tank(i) == {k \in 1..Len(state_history') : state_history'[k][2] = i}

\* j is the place of the last state change of tank i before the one at k
is_change_before(i, j, k) ==
    j < k /\ \A m \in changes_of_tank(i) : m < k => m <= j

\* the place of the change to FILLING that the started fill f recorded
filling_change(f) ==
    CHOOSE k \in changes_of_tank(f.tid) : \A m \in changes_of_tank(f.tid) : m <= k

\* the started fill f respects the timer of its tank, and the tank's gap
\* since it was emptied or since its last partial fill ended
tank_gap_kept(f) ==
    /\ f.start_time >= ready_for_fill_at'[f.tid]
    /\ state_history'[filling_change(f)] = <<f.start_time, f.tid, FILLING>>
    /\ \A j \in changes_of_tank(f.tid) :
          is_change_before(f.tid, j, filling_change(f)) =>
              /\ state_history'[j][3] = EMPTY =>
                    f.start_time >= state_history'[j][1] + Hours(tank_gap_hours)
              /\ state_history'[j][3] = SUSPENDED =>
                    f.start_time >= state_history'[j][1] + Hours(tank_fill_gap_hours)

\* the started fill f respects the fill-start time of its cargo, or the end
\* of the cargo's previous fill and the gap between fills
cargo_gap_kept(f) ==
    IF cargos'[cargo_of_fill(f)].tank_fills = <<>>
    THEN /\ f.start_time >= cargos'[cargo_of_fill(f)].fill_start
         /\ cargos'[cargo_of_fill(f)].fill_start
               = cargos'[cargo_of_fill(f)].arrival + Hours(fill_delay_hours)
    ELSE f.start_time >=
             cargos'[cargo_of_fill(f)].tank_fills[Len(cargos'[cargo_of_fill(f)].tank_fills)][3]
                 + Hours(tank_fill_gap_hours)

\* C31: no fill starts on a tank before the tank's ready-for-fill-at time
\* (empty time + tank gap, fill end + tank-fill gap after a partial fill), no
\* cargo starts its first fill before its fill-start time, and no cargo
\* starts a further fill before the end of its previous fill + the tank-fill
\* gap, whichever phase of the step starts the fill.
C31_GapsKept ==
    [][\A f \in started_fills : tank_gap_kept(f) /\ cargo_gap_kept(f)]_vars

\* A cargo's second fill has started after the gap between fills, on a tank
\* that was emptied by the feed and has rested for the tank gap.
C31_Witness ==
    \E n \in 1..Len(active_fills), k \in 1..Len(cargos), j \in 1..Len(state_history) :
        /\ cargos[k].vessel_name = active_fills[n].vessel_name
        /\ cargos[k].tank_fills # <<>>
        /\ tank_fill_gap_hours > 0
        /\ active_fills[n].start_time >=
              cargos[k].tank_fills[Len(cargos[k].tank_fills)][3] + Hours(tank_fill_gap_hours)
        /\ state_history[j][2] = active_fills[n].tid
        /\ state_history[j][3] = EMPTY
        /\ active_fills[n].start_time >= state_history[j][1] + Hours(tank_gap_hours)

\* the cargos the step schedules
scheduled_cargos == (Len(cargos) + 1)..Len(cargos')

\* the number of READY tanks at the scheduling check of the step: no phase
\* that schedules changes the READY tanks after the check
ready_at_check == Cardinality({i \in all_tank_ids : state'[i] = READY})

\* the cargo at k is the first one ever scheduled
first_scheduled(k) == ~first_cargo_scheduled /\ k = Len(cargos) + 1

\* every other cargo of the berth of the scheduled cargo k is discharged,
\* and the berth was free by the time of the check
berth_was_free(k) ==
    /\ \A j \in 1..Len(cargos') :
          (j # k /\ cargos'[j].berth = cargos'[k].berth) => cargos'[j].discharge_end # None
    /\ berths'[cargos'[k].berth].free_at <= now'
    /\ berths'[cargos'[k].berth].current_cargo = k

\* C32: in standard mode no cargo is scheduled before the READY-tank count
\* lies within the first-cargo window at a scheduling check; every later
\* cargo is scheduled only on a free berth and only when the READY-tank
\* count is at least the minimum READY-tank threshold, and it arrives no
\* earlier than the berth's free-at time plus a gap within the bounds.
C32_StandardScheduling ==
    [][~use_solver_plan =>
          /\ (cargos' # <<>>) => first_cargo_scheduled'
          /\ (~first_cargo_scheduled /\ first_cargo_scheduled') =>
                /\ first_cargo_min_ready <= ready_at_check
                /\ ready_at_check <= first_cargo_max_ready
          /\ \A k \in scheduled_cargos :
                /\ berth_was_free(k)
                /\ ~first_scheduled(k) =>
                      /\ ready_at_check >= min_ready_tanks
                      /\ cargos'[k].arrival >=
                            berths'[cargos'[k].berth].free_at + Hours(berth_gap_hours_min)]_vars

\* The first cargo was not scheduled at the start of the first day, when
\* more READY tanks than the window allows were counted, but at a later
\* check, and a later cargo is scheduled a gap after its berth was free.
C32_Witness ==
    /\ ~use_solver_plan
    /\ first_cargo_scheduled
    /\ first_cargo_max_ready < first_cargo_max_ready_cfg
    /\ Len(cargos) >= 2
    /\ cargos[1].arrival >= MinutesPerDay
    /\ \E k \in 2..Len(cargos) :
          cargos[k].arrival >= berths[cargos[k].berth].free_at + Hours(berth_gap_hours_min)

\* the cargos the step dispatches to their berths
dispatched_cargos == {k \in 1..Len(cargos) : ~cargos[k].dispatched /\ cargos'[k].dispatched}

\* the number of READY and FEEDING tanks at the scheduling check of the step
active_at_check == Cardinality({i \in all_tank_ids : state'[i] \in {READY, FEEDING}})

\* t lies a gap within the configured bounds after from
gap_within_bounds(from, t) ==
    from + Hours(berth_gap_hours_min) <= t /\ t <= from + Hours(berth_gap_hours_max)

\* the arrival of the dispatched cargo k: the first cargo of its berth a gap
\* after the start, a later one a gap after the berth was free, the minimum
\* gap when few tanks are READY or FEEDING
arrival_as_planned(k) ==
    IF ~berth_first_cargo_scheduled[cargos[k].berth]
    THEN gap_within_bounds(0, cargos'[k].arrival)
    ELSE /\ gap_within_bounds(berths'[cargos[k].berth].free_at, cargos'[k].arrival)
         /\ active_at_check <= min_ready_tanks =>
               cargos'[k].arrival =
                   berths'[cargos[k].berth].free_at + Hours(berth_gap_hours_min)

\* the cargos dispatched to the berth of k before k are discharged, and k
\* arrives after them
arrives_after_previous(k) ==
    \A j \in 1..Len(cargos) :
        (j # k /\ cargos[j].berth = cargos[k].berth /\ cargos[j].dispatched) =>
            /\ cargos'[j].discharge_end # None
            /\ cargos'[k].arrival >= cargos'[j].discharge_end

starting_usable(i) ==
    IF initial_tank_levels[i] > unusable_per_tank
    THEN initial_tank_levels[i] - unusable_per_tank ELSE 0

\* the state the starting volume of tank i asks for
state_of_starting_volume(i) ==
    IF starting_usable(i) <= 0 THEN (IF i \in idle_tank_ids THEN IDLE ELSE EMPTY)
    ELSE IF starting_usable(i) < usable - 100 THEN IDLE
    ELSE READY

\* the simulator as constructed, before the first day is opened
constructed == pc = "run" /\ day_index = 0

\* the READY tank of the lowest id
lowest_ready == CHOOSE i \in all_tank_ids : state[i] = READY /\ \A j \in all_tank_ids : state[j] = READY => i <= j

\* C34 (states): each tank's initial state is the one its starting volume
\* asks for; as constructed tank 1 is FEEDING if and only if it is READY by
\* its volume and every other tank is in its initial state; while no tank
\* was selected to feed, no tank is FEEDING.
C34_InitialStates ==
    /\ \A i \in all_tank_ids : initial_state[i] = state_of_starting_volume(i)
    /\ constructed =>
          /\ (state[1] = FEEDING) <=> (state_of_starting_volume(1) = READY)
          /\ (active = 1) <=> (state_of_starting_volume(1) = READY)
          /\ \A i \in all_tank_ids :
                state[i] = IF i = 1 /\ state_of_starting_volume(1) = READY THEN FEEDING
                           ELSE state_of_starting_volume(i)
    /\ active = 0 => \A i \in all_tank_ids : state[i] # FEEDING

\* C34: at construction each tank's state is derived from its starting
\* volume (EMPTY, or IDLE for a pre-designated idle tank, at no usable
\* volume; IDLE below the usable capacity less the tolerance; READY
\* otherwise); tank 1 starts FEEDING if and only if it is READY, and
\* otherwise no tank is FEEDING until a feed-assignment phase selects the
\* READY tank of the lowest id.
C34_InitialFeed ==
    [][/\ C34_InitialStates
       /\ active = 0 =>
             /\ active' # 0 => pc = "ensure_feeding"
             /\ (pc = "ensure_feeding" /\ \E i \in all_tank_ids : state[i] = READY) =>
                   /\ active' = lowest_ready
                   /\ state'[lowest_ready] = FEEDING]_vars

\* C34 witness: tank 1 began below the READY threshold, so the simulator
\* started with no feeding tank, and the feed assignment put tank 2, the
\* READY tank of the lowest id, on feed while tank 3 was READY too.
C34_Witness ==
    /\ initial_state[1] = IDLE
    /\ initial_state[2] = READY
    /\ initial_state[3] = READY
    /\ active = 2
    /\ state[2] = FEEDING
    /\ state[3] = READY

\* the allocation has been made
allocated == optimizer.stage = "allocated"

\* the bucket of tank n: 0 idle-partial, 1 empty, 2 occupied
bucket_of(n) ==
    IF n \in DOMAIN optimizer.params.idleTankData /\ optimizer.params.idleTankData[n] # <<>>
    THEN 0
    ELSE IF optimizer.params.tank_levels[n]
               <= optimizer.params.deadBottom1 + optimizer.params.bufferVolume \div 2 + 1
    THEN 1 ELSE 2

\* the tanks of the repeating sequence
sequenced_tanks ==
    {n \in DOMAIN optimizer.params.idleTankData : optimizer.params.idleTankData[n] # <<>>}
        \cup DOMAIN optimizer.params.tank_levels

\* the position of tank n in the sequence idle-partial, empty, occupied,
\* each by ascending id: one more than the number of tanks before it
position_of(n) ==
    1 + Cardinality({m \in sequenced_tanks :
                        \/ bucket_of(m) < bucket_of(n)
                        \/ (bucket_of(m) = bucket_of(n) /\ m < n)})

\* entry k of the pool is the tank at position (k - 1) mod n of the
\* sequence, in cycle (k - 1) div n, counting k from 1
pool_repeats_sequence ==
    \A k \in 1..Len(optimizer.tank_plan) :
        /\ optimizer.tank_plan[k].tank_id[1] \in sequenced_tanks
        /\ position_of(optimizer.tank_plan[k].tank_id[1])
              = ((k - 1) % Cardinality(sequenced_tanks)) + 1
        /\ optimizer.tank_plan[k].tank_id[2] = (k - 1) \div Cardinality(sequenced_tanks)

pool_pairs_distinct ==
    \A j, k \in 1..Len(optimizer.tank_plan) :
        optimizer.tank_plan[j].tank_id = optimizer.tank_plan[k].tank_id => j = k

pool_fillable_capacity ==
    seq_sum([k \in 1..Len(optimizer.tank_plan) |-> optimizer.tank_plan[k].usable_capacity])

\* C35: the tank allocation pool is a prefix of the endless repetition of
\* the sequence idle-partial tanks, empty tanks, occupied tanks (each by
\* ascending id), every (tank, cycle) pair occurs at most once, and the
\* fillable capacities of its entries add up to at least the total crude
\* volume needed.
C35_PoolCovers ==
    allocated =>
        /\ pool_repeats_sequence
        /\ pool_pairs_distinct
        /\ pool_fillable_capacity >= total_needed_of(optimizer.params)

\* C35 (amended): the pool is that prefix with every pair at most once, and
\* it is long enough that the usable capacity of a tank times the number
\* of its entries is at least the total crude volume needed; the fillable
\* capacities, which leave out what the idle tanks hold, may add up to less.
C35_PoolCoversByUsable ==
    allocated =>
        /\ pool_repeats_sequence
        /\ pool_pairs_distinct
        /\ usable_capacity_of(optimizer.params) * Len(optimizer.tank_plan)
              >= total_needed_of(optimizer.params)

\* C35 witness: a pool that goes into a second cycle, with an idle-partial
\* tank first in the sequence ahead of an empty tank of a lower id.
C35_Witness ==
    /\ allocated
    /\ \E k \in 1..Len(optimizer.tank_plan) : optimizer.tank_plan[k].tank_id[2] = 1
    /\ bucket_of(optimizer.tank_plan[1].tank_id[1]) = 0
    /\ \E k \in 1..Len(optimizer.tank_plan) :
          /\ bucket_of(optimizer.tank_plan[k].tank_id[1]) = 1
          /\ optimizer.tank_plan[k].tank_id[1] < optimizer.tank_plan[1].tank_id[1]

\* entry k is the first cycle of an idle-partial tank
first_idle_cycle(k) ==
    /\ optimizer.tank_plan[k].tank_id[2] = 0
    /\ bucket_of(optimizer.tank_plan[k].tank_id[1]) = 0

\* the usable volume the tank of entry k holds, by its configured level
pre_existing_volume(k) ==
    IF optimizer.tank_plan[k].tank_id[1] \notin DOMAIN optimizer.params.tank_levels THEN 0
    ELSE IF optimizer.params.tank_levels[optimizer.tank_plan[k].tank_id[1]]
               <= optimizer.params.deadBottom1 + optimizer.params.bufferVolume \div 2 THEN 0
    ELSE optimizer.params.tank_levels[optimizer.tank_plan[k].tank_id[1]]
            - (optimizer.params.deadBottom1 + optimizer.params.bufferVolume \div 2)

\* the volume of the crude named that entry k plans to purchase and fill,
\* and the volume it keeps as initial stock
purchase_volume(k, name) ==
    seq_sum([i \in 1..Len(optimizer.tank_plan[k].crude_volumes) |->
                IF /\ optimizer.tank_plan[k].crude_volumes[i].crude_name = name
                   /\ ~optimizer.tank_plan[k].crude_volumes[i].initial_stock
                THEN optimizer.tank_plan[k].crude_volumes[i].target_volume ELSE 0])

initial_stock_volume(k, name) ==
    seq_sum([i \in 1..Len(optimizer.tank_plan[k].crude_volumes) |->
                IF /\ optimizer.tank_plan[k].crude_volumes[i].crude_name = name
                   /\ optimizer.tank_plan[k].crude_volumes[i].initial_stock
                THEN optimizer.tank_plan[k].crude_volumes[i].target_volume ELSE 0])

\* the pre-existing volume of the crude named in the tank of entry k
pre_existing_crude(k, name) ==
    IF first_idle_cycle(k)
    THEN seq_sum([j \in 1..Len(optimizer.params.idleTankData[optimizer.tank_plan[k].tank_id[1]]) |->
            IF optimizer.params.idleTankData[optimizer.tank_plan[k].tank_id[1]][j].name = name
            THEN optimizer.params.idleTankData[optimizer.tank_plan[k].tank_id[1]][j].volume
            ELSE 0])
    ELSE 0

fillable_as_stated(k) ==
    optimizer.tank_plan[k].usable_capacity =
        IF first_idle_cycle(k)
        THEN usable_capacity_of(optimizer.params) - pre_existing_volume(k)
        ELSE usable_capacity_of(optimizer.params)

volumes_as_stated(k) ==
    /\ \A i \in 1..Len(optimizer.crude_mix) :
          purchase_volume(k, optimizer.crude_mix[i].name)
              = (optimizer.tank_plan[k].usable_capacity * optimizer.crude_mix[i].percentage)
                    \div percent_scale
    /\ \A name \in {"Crude A", "Crude B", "Crude C", "Crude X"} :
          initial_stock_volume(k, name) = pre_existing_crude(k, name)

\* C36: for every pool entry the fillable capacity is the usable capacity
\* less the pre-existing volume on the first cycle of an idle-partial tank
\* and the full usable capacity otherwise; for every crude of the target
\* mix the volume planned for purchase and fill is the fillable capacity
\* times the crude's fraction, and the pre-existing crude is a separate
\* initial-stock amount, also when it has the name of a crude of the mix.
C36_FillableAllocation ==
    allocated =>
        \A k \in 1..Len(optimizer.tank_plan) : fillable_as_stated(k) /\ volumes_as_stated(k)

\* the same for the tanks whose initial crudes are not named like a crude
\* of the target mix
allocation_with_distinct_names ==
    allocated =>
        \A k \in 1..Len(optimizer.tank_plan) :
            (\A i \in 1..Len(optimizer.crude_mix) :
                 pre_existing_crude(k, optimizer.crude_mix[i].name) = 0)
                => fillable_as_stated(k) /\ volumes_as_stated(k)

\* the cargo list has been generated
cargo_mix_done == optimizer.stage = "cargo_mix_done"

\* the cargo list is being generated, or has been
in_cargo_mix == optimizer.stage \in {"cargo_mix", "cargo_mix_done"}

\* the volume to purchase
required_purchase == total_needed_to_purchase(optimizer.tank_plan)

\* the volume of the cargos from lo to hi
RECURSIVE volume_of_cargos(_, _)
volume_of_cargos(lo, hi) ==
    IF lo > hi THEN 0
    ELSE IF lo = hi THEN optimizer.schedule[lo].size
    ELSE volume_of_cargos(lo, (lo + hi) \div 2) + volume_of_cargos((lo + hi) \div 2 + 1, hi)

\* the volume of the cargos before cargo k
purchased_before(k) == volume_of_cargos(1, k - 1)

\* cargo k carries crude number (k - 1) mod the number of crudes, its size
\* is min(capacity of its vessel class, volume still needed) and at least
\* 1,000 bbl
cargo_as_stated(k) ==
    /\ optimizer.schedule[k].crude_name
          = optimizer.crude_mix[((k - 1) % Len(optimizer.crude_mix)) + 1].name
    /\ optimizer.schedule[k].size
          = Min2(optimizer.vessels[optimizer.schedule[k].vessel_type],
                 required_purchase - purchased_before(k))
    /\ optimizer.schedule[k].size >= 10
    /\ purchased_before(k + 1) <= required_purchase

\* cargo k, past the forced ULCC and VLCC cargos, takes the vessel class at
\* position (k - 1) mod the length of the rotation
vessel_in_rotation(k) ==
    k > optimizer.params.minUlccRequired + optimizer.params.minVlccRequired =>
        optimizer.schedule[k].vessel_type
            = vessel_sequence_of(optimizer.vessels, optimizer.current_vessel_pattern)
                 [((k - 1) % Len(vessel_sequence_of(optimizer.vessels,
                                                    optimizer.current_vessel_pattern))) + 1]

\* the generation stopped at the requirement, or with less than 1,000 bbl
\* to go, or at the cap of 200 cargos
stopped_as_stated ==
    \/ purchased_before(Len(optimizer.schedule) + 1) = required_purchase
    \/ required_purchase - purchased_before(Len(optimizer.schedule) + 1) < 10
    \/ Len(optimizer.schedule) = 200

\* the list as far as it is generated
list_as_stated ==
    /\ \A k \in 1..Len(optimizer.schedule) : cargo_as_stated(k) /\ vessel_in_rotation(k)
    /\ Len(optimizer.schedule) <= 200

next_vessel_too_small ==
    optimizer.vessels[cargo_vessel_type(optimizer.params, optimizer.vessels,
                          vessel_sequence_of(optimizer.vessels, optimizer.current_vessel_pattern),
                          Len(optimizer.schedule) + 1)] < 10

solver_returned == optimizer.stage = "done"

\* The passes the solver can still make before it returns, counted from
\* above: none once it has returned, one for the formatting, for each
\* iteration left its head, its end and as many cargo passes as the cap of
\* 200 cargos leaves, and before that as many pool passes as tanks are
\* missing from the pool.
passes_of_an_iteration == max_cargos + 4

iteration_passes_left(o) ==
    (max_iterations - o.iteration) * passes_of_an_iteration
        + (IF o.stage = "iterate" THEN max_cargos + 3
           ELSE IF o.stage = "cargo_mix" THEN max_cargos + 2 - Len(o.schedule)
           ELSE 1)

\* the tanks the pool still lacks (none where the allocation raises)
tanks_missing(o) ==
    IF allocation_raises(o.params) THEN 0
    ELSE Max2(0, tanks_needed_to_fill(o.params) - Len(o.final_tank_id_pool))

passes_left(o) ==
    IF o.stage = "done" THEN 0
    ELSE IF o.stage = "format" THEN 1
    ELSE IF o.stage \in {"iterate", "cargo_mix", "cargo_mix_done"}
    THEN iteration_passes_left(o)
    ELSE IF o.stage = "pool"
    THEN (max_iterations + 1) * passes_of_an_iteration + tanks_missing(o)
    ELSE (max_iterations + 1) * passes_of_an_iteration + tanks_missing(o) + 1

\* the statement the solver is at can be executed (the pool loop is
\* followed for pool_cycle_bound cycles)
solver_can_step ==
    optimizer.stage = "pool" =>
        \/ Len(optimizer.final_tank_id_pool) >= tanks_needed_to_fill(optimizer.params)
        \/ optimizer.current_cycle < pool_cycle_bound

\* C38: the solver always terminates and returns a result for every
\* parameter set, the tank-pool loop, the cargo-generation loop and the
\* iteration loop all finishing, also when the parameters have no
\* tank-level entry and no idle-tank data: every pass of a loop leaves
\* fewer passes to make than the pass before it, and the pool loop is left
\* within the cycles its tanks need.
C38_SolverTerminates ==
    [][/\ passes_left(optimizer') < passes_left(optimizer)
       /\ solver_can_step']_vars

\* the same for the parameters with a tank-level entry or idle-tank data
solver_returns_with_tanks ==
    [][dynamic_repeating_sequence(optimizer.params) # <<>> =>
          /\ passes_left(optimizer') < passes_left(optimizer)
          /\ solver_can_step']_vars

\* the volume the step added to the tanks, and the volume it took off the
\* cargos' remaining volumes
volume_added_to_tanks ==
    SumOver([i \in all_tank_ids |-> IF bbl'[i] > bbl[i] THEN bbl'[i] - bbl[i] ELSE 0],
            all_tank_ids)

volume_taken_from_cargos ==
    SumOver([v \in DOMAIN cargo_remaining_volume |->
                cargo_remaining_volume[v] - cargo_remaining_volume'[v]],
            DOMAIN cargo_remaining_volume)

\* C39: crude volume is conserved by fills: when fills complete, the
\* increase of the target tanks' volumes equals the volume subtracted from
\* the cargos' remaining volumes; no crude is dropped by the cap at the
\* usable capacity, in standard mode as well as in solver mode.
C39_FillsConserve ==
    [][finishing_fills => volume_added_to_tanks = volume_taken_from_cargos]_vars

\* a step that consumes: _consume_hour runs from now to the step's end
consuming_step ==
    /\ pc = "consume"
    /\ now < step_end_of(day_index, now, snapshot_interval_minutes)

\* hourly rate x step length
step_volume ==
    (rate_hour * (step_end_of(day_index, now, snapshot_interval_minutes) - now))
        \div MinutesPerHour

\* the volume the step processed
volume_processed == total_processed_today' - total_processed_today

tank_feeds_at_start == active # 0 /\ state[active] = FEEDING

\* what the feeding tank and the next READY tank of the sequence hold
volume_in_reach ==
    bbl[active]
      + (IF find_next_ready_sequential(Self, active) # NoTank
         THEN bbl[find_next_ready_sequential(Self, active)] ELSE 0)

\* the FEED_CHANGEOVER rows the step logged
changeovers_logged ==
    Cardinality({n \in (Len(daily_log_rows) + 1)..Len(daily_log_rows') :
                    daily_log_rows'[n].Event = "FEED_CHANGEOVER"})

\* C40: in every time step the volume processed is at most hourly rate x
\* step length; it equals hourly rate x step length whenever a tank is
\* FEEDING at the start of consumption and the feeding tank together with
\* the next READY tank hold at least that much; and at most one feed
\* changeover happens per step.
C40_ProcessedPerStep ==
    [][consuming_step =>
          /\ volume_processed <= step_volume
          /\ (tank_feeds_at_start /\ volume_in_reach >= step_volume) =>
                volume_processed = step_volume
          /\ changeovers_logged <= 1]_vars

\* the same for a feeding tank that holds some volume at the start of the
\* step
processed_per_step_from_stocked_tank ==
    [][consuming_step =>
          /\ volume_processed <= step_volume
          /\ (tank_feeds_at_start /\ bbl[active] > 0 /\ volume_in_reach >= step_volume) =>
                volume_processed = step_volume
          /\ changeovers_logged <= 1]_vars

====
